---------------------------- MODULE Spec2Model ----------------------------
(***************************************************************************)
(* Model of the RPC outcome normaliser of the Foodtrace test scripts       *)
(* (src/test.py and src/gemtest.py): _req, invoke, query and ok.           *)
(*                                                                         *)
(* Python values are tagged records, so that values of different Python    *)
(* types can be compared.  A text (Python str) is a sequence of lexemes:   *)
(* a lexeme is either one character (punctuation, a digit, a blank) or a   *)
(* word of three or more characters, and no word contains a marker that    *)
(* the code searches for, so `marker in text` is lexeme membership.        *)
(***************************************************************************)
EXTENDS Integers, Sequences, FiniteSets, TLC

VARIABLES
    script,       \* which script's helper copies run: "test" or "gemtest"
    method_type,  \* the global mode flag (src/test.py:52)
    pc,           \* position of the calling sequence: idle, called, classified
    op,           \* the wrapper that ran last: "none", "invoke" or "query"
    resp,         \* the gateway's answer to the transport request of the last call,
                  \* if the call made one
    sent,         \* the envelopes handed to _req by the last call
    r,            \* the record _req returned inside the last call
    ret,          \* the value the last call returned to its caller
    raised,       \* TRUE when an exception escaped from the last call
    log,          \* the log lines of the last call or classification (their kinds)
    override,     \* the expected_status_codes argument of the last ok() call
    verdict,      \* the result of the last ok() call
    call,         \* the alias and the argument list the last call was made with
    oks,          \* how many times ok() ran on the value the last call returned
    site,         \* where main() stands: its phase and the roster entry of its loop
    SECRETS,      \* the global SECRETS: kid -> enrollment secret (src/test.py:51)
    actual_full_ids, \* the global actual_full_ids: kid -> full ID (src/test.py:54)
    frame,        \* the local variables of main() that outlive one call
    exit_status   \* the exit status of the process once main() has ended

\* the state of a run of main()
mainvars == <<site, SECRETS, actual_full_ids, frame, exit_status>>

vars == <<script, method_type, pc, op, resp, sent, r, ret, raised, log,
          override, verdict, call, oks, site, SECRETS, actual_full_ids, frame,
          exit_status>>

-----------------------------------------------------------------------------
(* Python values *)

\* a value is a record with one field, named after its Python type
PyNone == [none |-> TRUE]
PyBool(b) == [bool |-> b]
PyInt(n) == [int |-> n]
PyStr(s) == [str |-> s]
PyList(s) == [list |-> s]
PyDict(f) == [dict |-> f]

TypeOf(x) == CHOOSE k \in DOMAIN x : TRUE
V(x) == x[TypeOf(x)]

EmptyDict == PyDict(<<>>)

\* isinstance(x, str), isinstance(x, dict); isinstance(x, int) is true of bool too
IsStr(x) == TypeOf(x) = "str"
IsDict(x) == TypeOf(x) = "dict"
IsIntInstance(x) == TypeOf(x) \in {"int", "bool"}

\* the integer a bool or int compares as (True == 1)
IntOf(x) == IF TypeOf(x) = "bool" THEN (IF V(x) THEN 1 ELSE 0) ELSE V(x)

\* x == n for an integer literal n
EqInt(x, n) == IsIntInstance(x) /\ IntOf(x) = n

\* bool(x)
Truthy(x) ==
    CASE TypeOf(x) = "none" -> FALSE
      [] TypeOf(x) = "bool" -> V(x)
      [] TypeOf(x) = "int"  -> V(x) # 0
      [] TypeOf(x) = "str"  -> V(x) # <<>>
      [] TypeOf(x) = "list" -> V(x) # <<>>
      [] TypeOf(x) = "dict" -> DOMAIN V(x) # {}

\* d.get(k, default) and d.get(k)
GetOr(d, k, default) == IF k \in DOMAIN V(d) THEN V(d)[k] ELSE default
Get(d, k) == GetOr(d, k, PyNone)

\* `k in d`
HasKey(d, k) == k \in DOMAIN V(d)

\* d[k] = x on a copy
Put(d, k, x) == PyDict((k :> x) @@ V(d))

\* a or b
PyOr(a, b) == IF Truthy(a) THEN a ELSE b

-----------------------------------------------------------------------------
(* Texts *)

SingleChars == {"{", "}", "[", "]", ":", ",", "\"", " ", "<", ">"}

Contains(text, lexeme) == \E i \in 1..Len(text) : text[i] = lexeme

\* str.lower() and str.upper() on the words whose case matters here
LowerLex(w) ==
    CASE w \in {"VALID", "Valid", "valid"} -> "valid"
      [] w \in {"INVALID"} -> "invalid"
      [] w \in {"Chaincode Response", "chaincode response"} -> "chaincode response"
      [] w \in {"Transaction Returned With Failure",
                "transaction returned with failure"} -> "transaction returned with failure"
      [] w \in {"Already Exists", "already exists"} -> "already exists"
      [] OTHER -> w

UpperLex(w) ==
    CASE w \in {"VALID", "Valid", "valid"} -> "VALID"
      [] w \in {"INVALID"} -> "INVALID"
      [] OTHER -> w

Lower(text) == [i \in 1..Len(text) |-> LowerLex(text[i])]
Upper(text) == [i \in 1..Len(text) |-> UpperLex(text[i])]

RECURSIVE LStrip(_)
LStrip(text) ==
    IF text # <<>> /\ Head(text) = " " THEN LStrip(Tail(text)) ELSE text

RECURSIVE RStrip(_)
RStrip(text) ==
    IF text # <<>> /\ text[Len(text)] = " "
    THEN RStrip(SubSeq(text, 1, Len(text) - 1))
    ELSE text

\* str.strip()
Strip(text) == RStrip(LStrip(text))

-----------------------------------------------------------------------------
(* JSON texts: json.loads and the gateway's serialiser *)

\* the integers that occur in JSON texts of the model
Numerals == {0, 1, 5, 200, 500}

IsNumeral(w) == \E n \in Numerals : ToString(n) = w
NumeralValue(w) == CHOOSE n \in Numerals : ToString(n) = w

\* inside a JSON string literal a quote is written \" 
EscQuote == "\\\""

\* what json.loads raises on a text that is not JSON
JSONDecodeError == [JSONDecodeError |-> TRUE]

ParseFail == [ok |-> FALSE, val |-> PyNone, rest |-> <<>>]
Parsed(x, rest) == [ok |-> TRUE, val |-> x, rest |-> rest]

\* the characters of a string literal up to its closing quote
RECURSIVE ParseChars(_, _)
ParseChars(text, acc) ==
    IF text = <<>> THEN ParseFail
    ELSE IF Head(text) = "\"" THEN Parsed(PyStr(acc), Tail(text))
    ELSE IF Head(text) = EscQuote THEN ParseChars(Tail(text), Append(acc, "\""))
    ELSE ParseChars(Tail(text), Append(acc, Head(text)))

RECURSIVE ParseValue(_)
RECURSIVE ParseItems(_, _)
RECURSIVE ParseMembers(_, _)

\* An expensive value that is used more than once is bound by a singleton set,
\* {F(p) : p \in {x}}, so that it is computed once.

\* after one element of an array: its end, or a "," and the next element
ItemsAfter(item, acc) ==
    LET rest == LStrip(item.rest)
    IN  IF ~item.ok \/ rest = <<>> THEN ParseFail
        ELSE IF Head(rest) = "]" THEN Parsed(PyList(Append(acc, item.val)), Tail(rest))
        ELSE IF Head(rest) = "," THEN ParseItems(Tail(rest), Append(acc, item.val))
        ELSE ParseFail

\* the elements of an array after its "[" or after a ","
ParseItems(text, acc) ==
    CHOOSE res \in {ItemsAfter(item, acc) : item \in {ParseValue(text)}} : TRUE

\* the key of a member: a string literal of one word
ParseKey(text) ==
    IF text # <<>> /\ Head(text) = "\"" THEN ParseChars(Tail(text), <<>>) ELSE ParseFail

\* the value of a member whose key was read: after the ":"
ParseMemberValue(key, text) ==
    IF key.ok /\ Len(V(key.val)) = 1 /\ text # <<>> /\ Head(text) = ":"
    THEN ParseValue(Tail(text)) ELSE ParseFail

\* after one member of an object: its end, or a "," and the next member
MembersAfter(key, val, acc) ==
    LET rest == LStrip(val.rest)
    IN  IF ~val.ok \/ rest = <<>> THEN ParseFail
        ELSE IF Head(rest) = "}"
        THEN Parsed(PyDict((V(key.val)[1] :> val.val) @@ acc), Tail(rest))
        ELSE IF Head(rest) = ","
        THEN ParseMembers(Tail(rest), (V(key.val)[1] :> val.val) @@ acc)
        ELSE ParseFail

\* the members of an object after its "{" or after a ","
ParseMembers(text, acc) ==
    CHOOSE res \in
        {MembersAfter(key, val, acc) :
            key \in {ParseKey(LStrip(text))},
            val \in {ParseMemberValue(ParseKey(LStrip(text)),
                                      LStrip(ParseKey(LStrip(text)).rest))}} : TRUE

ParseValue(text) ==
    LET t1 == LStrip(text)
        rest == LStrip(Tail(t1))
    IN  IF t1 = <<>> THEN ParseFail
        ELSE CASE t1[1] = "null"  -> Parsed(PyNone, Tail(t1))
               [] t1[1] = "true"  -> Parsed(PyBool(TRUE), Tail(t1))
               [] t1[1] = "false" -> Parsed(PyBool(FALSE), Tail(t1))
               [] IsNumeral(t1[1]) -> Parsed(PyInt(NumeralValue(t1[1])), Tail(t1))
               [] t1[1] = "\""    -> ParseChars(Tail(t1), <<>>)
               [] t1[1] = "["     ->
                    IF rest # <<>> /\ Head(rest) = "]"
                    THEN Parsed(PyList(<<>>), Tail(rest))
                    ELSE ParseItems(rest, <<>>)
               [] t1[1] = "{"     ->
                    IF rest # <<>> /\ Head(rest) = "}"
                    THEN Parsed(EmptyDict, Tail(rest))
                    ELSE ParseMembers(rest, <<>>)
               [] OTHER -> ParseFail

\* json.loads(text): the value, or JSONDecodeError
json_loads(text) ==
    CHOOSE res \in {IF p.ok /\ LStrip(p.rest) = <<>> THEN p.val ELSE JSONDecodeError :
                       p \in {ParseValue(text)}} : TRUE

\* the text of a string literal: quotes inside are escaped
RECURSIVE Escape(_)
Escape(text) ==
    IF text = <<>> THEN <<>>
    ELSE <<IF Head(text) = "\"" THEN EscQuote ELSE Head(text)>> \o Escape(Tail(text))

RECURSIVE Serialise(_)
RECURSIVE SerialiseItems(_)
RECURSIVE SerialiseMembers(_, _)

SerialiseItems(items) ==
    IF items = <<>> THEN <<>>
    ELSE Serialise(Head(items))
         \o (IF Len(items) > 1 THEN <<",">> ELSE <<>>)
         \o SerialiseItems(Tail(items))

SerialiseMembers(f, keys) ==
    IF keys = {} THEN <<>>
    ELSE LET k == CHOOSE x \in keys : TRUE
         IN  <<"\"", k, "\"", ":">> \o Serialise(f[k])
             \o (IF keys # {k} THEN <<",">> ELSE <<>>)
             \o SerialiseMembers(f, keys \ {k})

\* the JSON text the gateway writes for a value
Serialise(x) ==
    CASE TypeOf(x) = "none" -> <<"null">>
      [] TypeOf(x) = "bool" -> <<IF V(x) THEN "true" ELSE "false">>
      [] TypeOf(x) = "int"  -> <<ToString(V(x))>>
      [] TypeOf(x) = "str"  -> <<"\"">> \o Escape(V(x)) \o <<"\"">>
      [] TypeOf(x) = "list" -> <<"[">> \o SerialiseItems(V(x)) \o <<"]">>
      [] TypeOf(x) = "dict" -> <<"{">> \o SerialiseMembers(V(x), DOMAIN V(x)) \o <<"}">>

-----------------------------------------------------------------------------
(* The gateway's answers, as urllib presents them to _req *)

\* urlopen raised before any response: connection refused, timeout, TLS failure
NetError(exc) ==
    [kind |-> "neterror", code |-> 0, body |-> <<>>, readfail |-> FALSE, exc |-> exc]

\* urlopen returned a 2xx response; readfail: reading its body fails (timeout,
\* connection reset)
Success(code, body, readfail) ==
    [kind |-> "success", code |-> code, body |-> body, readfail |-> readfail,
     exc |-> <<"timed out">>]

\* urlopen raised HTTPError for a 4xx/5xx response; readfail: reading the body of
\* the error response fails
HttpError(code, body, readfail) ==
    [kind |-> "httperror", code |-> code, body |-> body, readfail |-> readfail,
     exc |-> <<"timed out">>]

-----------------------------------------------------------------------------
(* _req *)

\* the outcome of a call: a returned value, or an exception that escapes
Return(x) == [raised |-> FALSE, val |-> x]
Raise(exc) == [raised |-> TRUE, val |-> PyStr(exc)]

\* one element of the iterable given to dict.update: a pair [key, value] whose
\* key is a one-word string is stored; any other element raises
UpdatePair(out, item) ==
    IF TypeOf(item) = "list" /\ Len(V(item)) = 2
       /\ IsStr(V(item)[1]) /\ Len(V(V(item)[1])) = 1
    THEN Return(Put(out, V(V(item)[1])[1], V(item)[2]))
    ELSE Raise(<<"cannot convert dictionary update sequence element">>)

RECURSIVE UpdatePairs(_, _)
UpdatePairs(out, items) ==
    IF items = <<>> THEN Return(out)
    ELSE CHOOSE res \in {IF one.raised THEN one ELSE UpdatePairs(one.val, Tail(items)) :
                            one \in {UpdatePair(out, Head(items))}} : TRUE

\* Update in which the fields the record already has win over those of x
Update_KeepOwn(out, x) ==
    CASE TypeOf(x) = "dict" -> Return(PyDict(V(out) @@ V(x)))
      [] TypeOf(x) = "list" -> UpdatePairs(out, V(x))
      [] TypeOf(x) = "str"  ->
            IF V(x) = <<>> THEN Return(out)
            ELSE Raise(<<"dictionary update sequence element #0 has length 1; 2 is required">>)
      [] OTHER -> Raise(<<"object is not iterable">>)

\* out.update(x): the merged dict, or the TypeError/ValueError Python raises when
\* x is no mapping and no iterable of pairs
Update(out, x) ==
    CASE TypeOf(x) = "dict" -> Return(PyDict(V(x) @@ V(out)))
      [] TypeOf(x) = "list" -> UpdatePairs(out, V(x))
      [] TypeOf(x) = "str"  ->
            IF V(x) = <<>> THEN Return(out)
            ELSE Raise(<<"dictionary update sequence element #0 has length 1; 2 is required">>)
      [] OTHER -> Raise(<<"object is not iterable">>)

\* the failure-sentinel status of a transport failure
TransportFailureStatus == 500

\* except Exception as exc: return {"err": str(exc), "status": 500}
ExceptionRecord(exc) ==
    PyDict([err |-> PyStr(exc), status |-> PyInt(TransportFailureStatus)])

\* the try body on a 2xx response (src/test.py:66-74)
\* out.update(json.loads(body)), or out["raw"] = body when body is not JSON; a
\* TypeError or ValueError of update is caught by `except Exception`
MergeBody(out, body, decoded) ==
    IF decoded = JSONDecodeError THEN Return(Put(out, "raw", PyStr(body)))
    ELSE CHOOSE res \in {IF updated.raised THEN Return(ExceptionRecord(V(updated.val)))
                         ELSE Return(updated.val) :
                            updated \in {Update(out, decoded)}} : TRUE

ReqSuccess(response) ==
    LET out == PyDict([status |-> PyInt(response.code)])
    IN  IF response.readfail THEN Return(ExceptionRecord(response.exc))
        ELSE IF response.body = <<>> THEN Return(out)
        ELSE CHOOSE res \in {MergeBody(out, response.body, decoded) :
                                decoded \in {json_loads(response.body)}} : TRUE

RawNote(raw, note) == PyDict([raw |-> PyStr(raw), note |-> PyStr(<<note>>)])

\* the details of an HTTP error response (src/test.py:77-80)
ErrorDetails(raw) ==
    IF raw # <<>> /\ ~Contains(raw, "<html") /\ Contains(raw, "{")
    THEN CHOOSE res \in {IF parsed = JSONDecodeError
                         THEN RawNote(raw, "Response could not be parsed as JSON.")
                         ELSE parsed : parsed \in {json_loads(raw)}} : TRUE
    ELSE RawNote(raw, "Response not valid JSON or HTML.")

\* the HTTPError handler (src/test.py:75-81); e.read() is outside any try
ReqHttpError(response) ==
    IF response.readfail THEN Raise(response.exc)
    ELSE Return(PyDict([err     |-> PyStr(<<"HTTP ", ToString(response.code)>>),
                        details |-> ErrorDetails(response.body),
                        status  |-> PyInt(response.code)]))

PyBytes(s) == [bytes |-> s]

\* json.dumps(payload) accepts every value of the model but bytes
RECURSIVE Serialisable(_)
Serialisable(x) ==
    CASE TypeOf(x) = "bytes" -> FALSE
      [] TypeOf(x) = "list"  -> \A i \in 1..Len(V(x)) : Serialisable(V(x)[i])
      [] TypeOf(x) = "dict"  -> \A k \in DOMAIN V(x) : Serialisable(V(x)[k])
      [] OTHER -> TRUE

\* _req(url, payload, method): the record for the gateway's answer.  json.dumps
\* runs before the try (src/test.py:60), so its TypeError escapes
_req(payload, response) ==
    IF ~Serialisable(payload)
    THEN Raise(<<"Object of type bytes is not JSON serializable">>)
    ELSE CASE response.kind = "success"   -> ReqSuccess(response)
           [] response.kind = "httperror" -> ReqHttpError(response)
           [] response.kind = "neterror"  -> Return(ExceptionRecord(response.exc))

-----------------------------------------------------------------------------
(* The roster and the two invocation wrappers *)

ID_ROSTER ==
    << [kid |-> "admin_main_tester",        alias |-> "MainAdminFT",      role |-> "admin"],
       [kid |-> "farmer_alice_tester",      alias |-> "AliceAcres",       role |-> "farmer"],
       [kid |-> "processor_bob_tester",     alias |-> "BobProcessing",    role |-> "processor"],
       [kid |-> "processor_charlie_tester", alias |-> "CharlieTransform", role |-> "processor"],
       [kid |-> "distributor_dave_tester",  alias |-> "DaveDistribution", role |-> "distributor"],
       [kid |-> "retailer_eve_tester",      alias |-> "EveMart",          role |-> "retailer"],
       [kid |-> "certifier_frank_tester",   alias |-> "FrankCertify",     role |-> "certifier"],
       [kid |-> "auditor_grace_tester",     alias |-> "GraceAudits",      role |-> "admin"] >>

\* get_kaleido_kid_for_alias that falls back on the alias itself as the kid
get_kaleido_kid_for_alias_Fallback(alias) ==
    LET hits == {i \in 1..Len(ID_ROSTER) : ID_ROSTER[i].alias = alias}
    IN  IF hits = {} THEN PyStr(<<alias>>)
        ELSE PyStr(<<ID_ROSTER[CHOOSE i \in hits : \A j \in hits : i <= j].kid>>)

\* the first roster entry with the alias, or None (with a WARNING line)
get_kaleido_kid_for_alias(alias) ==
    LET hits == {i \in 1..Len(ID_ROSTER) : ID_ROSTER[i].alias = alias}
    IN  IF hits = {} THEN PyNone
        ELSE PyStr(<<ID_ROSTER[CHOOSE i \in hits : \A j \in hits : i <= j].kid>>)

\* str(arg)
PyStrOf(x) ==
    CASE TypeOf(x) = "str"   -> x
      [] TypeOf(x) = "int"   -> PyStr(<<ToString(V(x))>>)
      [] TypeOf(x) = "bool"  -> PyStr(<<IF V(x) THEN "True" ELSE "False">>)
      [] TypeOf(x) = "none"  -> PyStr(<<"None">>)
      [] TypeOf(x) = "bytes" -> PyStr(<<"b'">> \o V(x) \o <<"'">>)

\* [str(arg) if not isinstance(arg, str) else arg for arg in args]; gemtest.py's
\* invoke keeps bytes as well (src/gemtest.py:159)
StrArgs(args, keepBytes) ==
    [i \in 1..Len(args) |->
        IF IsStr(args[i]) \/ (keepBytes /\ TypeOf(args[i]) = "bytes")
        THEN args[i] ELSE PyStrOf(args[i])]

CHANNEL_NAME == <<"default-channel">>
CHAINCODE_NAME == <<"banana">>

Headers(kid) ==
    PyDict([signer |-> kid, channel |-> PyStr(CHANNEL_NAME),
            chaincode |-> PyStr(CHAINCODE_NAME)])

\* the synthetic record of an alias that is not in the roster
AliasNotFound(alias) ==
    PyDict([err    |-> PyStr(<<"Signer alias ", alias, " not found in ID_ROSTER">>),
            status |-> PyInt(0)])

\* what a wrapper hands back to the calling sequence
Outcome(exc, value, rec, envelopes, lines) ==
    [raised |-> exc, ret |-> value, r |-> rec, sent |-> envelopes, log |-> lines]

\* no value: the variable holds nothing
NoValue == [absent |-> TRUE]

\* error_message = details.get("error", "") or details.get("message", "")
ErrorMessage(details) ==
    PyOr(GetOr(details, "error", PyStr(<<>>)), GetOr(details, "message", PyStr(<<>>)))

\* the summary line of invoke in test.py (src/test.py:178-190): its kind, no line
\* at all, or the AttributeError of .lower() on a message that is no string
InvokeLogTest(rec) ==
    LET details == Get(rec, "details")
        status == Get(rec, "status")
        msg == ErrorMessage(details)
    IN  IF Truthy(details) /\ IsDict(details)
           /\ (HasKey(details, "error") \/ HasKey(details, "message"))
        THEN IF ~IsStr(msg) THEN "raise"
             ELSE IF Contains(Lower(V(msg)), "chaincode response")
                     \/ Contains(Lower(V(msg)), "transaction returned with failure")
                     \/ Contains(V(msg), "Description: ")
             THEN "CHAINCODE ERROR"
             ELSE "KALEIDO RESPONSE"
        ELSE IF ~(EqInt(status, 202) \/ status = PyStr(<<"VALID">>) \/ status = PyStr(<<"valid">>))
        THEN IF ~(IsStr(status) /\ Upper(V(status)) = <<"VALID">>)
             THEN "UNEXPECTED HTTP Status"
             ELSE "no line"
        ELSE "Sent/Committed"

\* the summary line of invoke in gemtest.py (src/gemtest.py:174-186)
InvokeLogGem(rec) ==
    LET details == Get(rec, "details")
        status == Get(rec, "status")
        msg == ErrorMessage(details)
    IN  IF IsDict(details) /\ (HasKey(details, "error") \/ HasKey(details, "message"))
        THEN IF ~IsStr(msg) THEN "raise"
             ELSE IF Contains(Lower(V(msg)), "chaincode response")
                     \/ Contains(Lower(V(msg)), "transaction returned with failure")
                     \/ Contains(V(msg), "Description: ")
             THEN "CHAINCODE ERROR"
             ELSE "KALEIDO RESPONSE"
        ELSE IF ~(IsStr(status) /\ Upper(V(status)) = <<"VALID">>) /\ ~EqInt(status, 202)
        THEN "UNEXPECTED HTTP Status"
        ELSE "Sent/Committed"

\* InvokeReturn that sends the envelope a second time after a failed request
InvokeReturn_Resends(scr, payload, got) ==
    LET line == IF scr = "test" THEN InvokeLogTest(got.val) ELSE InvokeLogGem(got.val)
        envelopes == IF ~got.raised /\ EqInt(Get(got.val, "status"), 500)
                     THEN <<payload, payload>> ELSE <<payload>>
    IN  IF got.raised THEN Outcome(TRUE, NoValue, NoValue, envelopes, <<>>)
        ELSE IF line = "raise" THEN Outcome(TRUE, NoValue, got.val, envelopes, <<>>)
        ELSE Outcome(FALSE, got.val, got.val, envelopes,
                     IF line = "no line" THEN <<>> ELSE <<line>>)

\* invoke(chaincode_alias_for_signer, func, args) of script scr
\* what invoke does with the record of _req: it logs its summary line and
\* returns the record
InvokeReturn(scr, payload, got) ==
    LET line == IF scr = "test" THEN InvokeLogTest(got.val) ELSE InvokeLogGem(got.val)
    IN  IF got.raised THEN Outcome(TRUE, NoValue, NoValue, <<payload>>, <<>>)
        ELSE IF line = "raise" THEN Outcome(TRUE, NoValue, got.val, <<payload>>, <<>>)
        ELSE Outcome(FALSE, got.val, got.val, <<payload>>,
                     IF line = "no line" THEN <<>> ELSE <<line>>)

\* invoke(chaincode_alias_for_signer, func, args) of script scr
invoke(scr, alias, func, args, response) ==
    LET str_args == StrArgs(args, scr = "gemtest")
        kid == get_kaleido_kid_for_alias(alias)
        payload == PyDict([headers |-> Headers(kid), func |-> PyStr(<<func>>),
                           args |-> PyList(str_args), strongread |-> PyBool(TRUE)])
    IN  IF ~Truthy(kid)
        THEN Outcome(FALSE, AliasNotFound(alias), NoValue, <<>>, <<"WARNING", "CRITICAL ERROR">>)
        ELSE CHOOSE res \in {InvokeReturn(scr, payload, got) :
                                got \in {_req(payload, response)}} : TRUE

\* ProcessedResult that gives up on a result text it cannot parse
ProcessedResult_DropsUnparsable(rec) ==
    LET result == Get(rec, "result")
    IN  IF ~EqInt(Get(rec, "status"), 200) THEN PyNone
        ELSE IF ~HasKey(rec, "result") \/ result = PyNone THEN PyNone
        ELSE IF ~IsStr(result) THEN result
        ELSE IF Strip(V(result)) = <<>> THEN PyNone
        ELSE CHOOSE res \in {IF parsed = JSONDecodeError THEN PyNone ELSE parsed :
                                parsed \in {json_loads(V(result))}} : TRUE

\* ProcessedResult without the test for a blank result text: the blank text fails
\* to parse and is kept as the raw result
ProcessedResult_NoBlankTest(rec) ==
    LET result == Get(rec, "result")
    IN  IF ~EqInt(Get(rec, "status"), 200) THEN PyNone
        ELSE IF ~HasKey(rec, "result") \/ result = PyNone THEN PyNone
        ELSE IF ~IsStr(result) THEN result
        ELSE CHOOSE res \in {IF parsed = JSONDecodeError THEN result ELSE parsed :
                                parsed \in {json_loads(V(result))}} : TRUE

\* processed_result of query (src/test.py:210-232, src/gemtest.py:206-232):
\* None, the parsed result, or the raw result when it cannot be parsed
ProcessedResult(rec) ==
    LET result == Get(rec, "result")
    IN  IF ~EqInt(Get(rec, "status"), 200) THEN PyNone
        ELSE IF ~HasKey(rec, "result") \/ result = PyNone THEN PyNone
        ELSE IF ~IsStr(result) THEN result
        ELSE IF Strip(V(result)) = <<>> THEN PyNone
        ELSE CHOOSE res \in {IF parsed = JSONDecodeError THEN result ELSE parsed :
                                parsed \in {json_loads(V(result))}} : TRUE

\* whether query logs its parse warning before the Q line
ParseWarning(rec) ==
    LET result == Get(rec, "result")
    IN  /\ EqInt(Get(rec, "status"), 200)
        /\ IsStr(result)
        /\ Strip(V(result)) # <<>>
        /\ json_loads(V(result)) = JSONDecodeError

\* QueryReturn that tests the processed result for truth instead of for None
QueryReturn_Truthy(payload, got, processed_result) ==
    IF got.raised THEN Outcome(TRUE, NoValue, NoValue, <<payload>>, <<>>)
    ELSE Outcome(FALSE,
                 IF EqInt(Get(got.val, "status"), 200) /\ Truthy(processed_result)
                 THEN processed_result ELSE got.val,
                 got.val, <<payload>>,
                 IF ParseWarning(got.val) THEN <<"Warning", "Q">> ELSE <<"Q">>)

\* QueryReturn that hands back the processed result whatever the status and
\* whether or not there is one
QueryReturn_Always(payload, got, processed_result) ==
    IF got.raised THEN Outcome(TRUE, NoValue, NoValue, <<payload>>, <<>>)
    ELSE Outcome(FALSE, processed_result, got.val, <<payload>>,
                 IF ParseWarning(got.val) THEN <<"Warning", "Q">> ELSE <<"Q">>)

\* what query does with the record of _req (src/test.py:210-236)
QueryReturn(payload, got, processed_result) ==
    IF got.raised THEN Outcome(TRUE, NoValue, NoValue, <<payload>>, <<>>)
    ELSE Outcome(FALSE,
                 IF EqInt(Get(got.val, "status"), 200) /\ processed_result # PyNone
                 THEN processed_result ELSE got.val,
                 got.val, <<payload>>,
                 IF ParseWarning(got.val) THEN <<"Warning", "Q">> ELSE <<"Q">>)

\* query(chaincode_alias_for_signer, func, args); the two copies differ only in
\* their log texts and in how they spell the except clauses
query(scr, alias, func, args, response) ==
    LET str_args == StrArgs(args, FALSE)
        kid == get_kaleido_kid_for_alias(alias)
        payload == PyDict([headers |-> Headers(kid), func |-> PyStr(<<func>>),
                           args |-> PyList(str_args)])
    IN  IF ~Truthy(kid)
        THEN Outcome(FALSE, AliasNotFound(alias), NoValue, <<>>, <<"WARNING", "CRITICAL ERROR">>)
        ELSE CHOOSE res \in
                {QueryReturn(payload, got,
                             IF got.raised THEN PyNone ELSE ProcessedResult(got.val)) :
                    got \in {_req(payload, response)}} : TRUE

-----------------------------------------------------------------------------
(* ok: the outcome classifier *)

PASS == TRUE
FAIL == FALSE

Verdict(b, lines) == [raised |-> FALSE, val |-> b, log |-> lines]
OkRaises(lines) == [raised |-> TRUE, val |-> FAIL, log |-> lines]

\* ExpectedCodes with the two mode defaults exchanged
ExpectedCodes_Swapped(mode, codes) ==
    IF codes = PyNone
    THEN IF mode = "invoke" THEN <<PyInt(200)>> ELSE <<PyInt(202)>>
    ELSE V(codes)

\* the acceptable status codes in force (src/test.py:241-245)
ExpectedCodes(mode, codes) ==
    IF codes = PyNone
    THEN IF mode = "invoke" THEN <<PyInt(202)>> ELSE <<PyInt(200)>>
    ELSE V(codes)

\* isinstance(status, int) and status in expected_status_codes
StatusExpected(status, expected) ==
    IsIntInstance(status) /\ \E i \in 1..Len(expected) : EqInt(expected[i], IntOf(status))

\* IsValid that compares the status as it is spelled
IsValid_Exact(mode, status) ==
    mode = "invoke" /\ status = PyStr(<<"VALID">>)

\* method_type == "invoke" and isinstance(status, str) and status.upper() == "VALID"
IsValid(mode, status) ==
    mode = "invoke" /\ IsStr(status) /\ Upper(V(status)) = <<"VALID">>

\* "Description: " in msg or "chaincode response" in msg.lower(): "yes", "no", or
\* "raise" when msg is no string (TypeError of `in`, AttributeError of .lower())
Marker(msg) ==
    CASE TypeOf(msg) = "str" ->
            IF Contains(V(msg), "Description: ")
               \/ Contains(Lower(V(msg)), "chaincode response") THEN "yes" ELSE "no"
      [] TypeOf(msg) = "list" ->
            IF \E i \in 1..Len(V(msg)) : V(msg)[i] = PyStr(<<"Description: ">>)
            THEN "yes" ELSE "raise"
      [] TypeOf(msg) = "dict" ->
            IF "Description: " \in DOMAIN V(msg) THEN "yes" ELSE "raise"
      [] OTHER -> "raise"

\* the test.py check of line 265: a 200 without result that is no clear empty answer
ResultMissing(rec) ==
    /\ ~HasKey(rec, "result")
    /\ ~(Get(rec, "raw") = PyStr(<<>>)
         \/ (~Truthy(Get(rec, "details")) /\ Cardinality(DOMAIN V(rec)) <= 2))

\* ok(r, expected_status_codes) of test.py (src/test.py:239-286), method_type = mode
ok_test(rec, mode, codes) ==
    LET expected == ExpectedCodes(mode, codes)
        status == Get(rec, "status")
        details == Get(rec, "details")
        scan == Truthy(details) /\ IsDict(details)
        found == Marker(ErrorMessage(details))
        missing == IF ResultMissing(rec) THEN <<"DEBUG result missing">> ELSE <<>>
    IN  IF IsValid(mode, status) THEN Verdict(PASS, <<"DEBUG VALID">>)
        ELSE IF StatusExpected(status, expected) /\ mode = "query" /\ EqInt(status, 200)
        THEN IF scan /\ found = "raise" THEN OkRaises(<<>>)
             ELSE IF scan /\ found = "yes" THEN Verdict(FAIL, <<"DEBUG chaincode error">>)
             ELSE Verdict(PASS, missing)
        ELSE IF StatusExpected(status, expected) /\ mode = "invoke" /\ EqInt(status, 202)
        THEN Verdict(PASS, <<"DEBUG accepted">>)
        ELSE IF scan /\ found = "raise" THEN OkRaises(<<"DEBUG not expected">>)
        ELSE IF scan /\ found = "yes"
        THEN Verdict(FAIL, <<"DEBUG not expected", "DEBUG chaincode error">>)
        ELSE Verdict(FAIL, <<"DEBUG not expected">>)

\* the result scan of gemtest.py line 271
ResultMarker(result) ==
    IsStr(result)
    /\ (Contains(V(result), "Description: ")
        \/ Contains(Lower(V(result)), "chaincode response"))

\* ok(r, expected_status_codes) of gemtest.py (src/gemtest.py:245-289)
ok_gem(rec, mode, codes) ==
    LET expected == ExpectedCodes(mode, codes)
        status == Get(rec, "status")
        details == Get(rec, "details")
        scan == IsDict(details)
        found == Marker(ErrorMessage(details))
    IN  IF IsValid(mode, status) THEN Verdict(PASS, <<"DEBUG VALID">>)
        ELSE IF StatusExpected(status, expected) /\ mode = "query" /\ EqInt(status, 200)
        THEN IF Truthy(Get(rec, "err")) THEN Verdict(FAIL, <<"DEBUG error structure">>)
             ELSE IF ResultMarker(Get(rec, "result"))
             THEN Verdict(FAIL, <<"DEBUG result error">>)
             ELSE Verdict(PASS, <<>>)
        ELSE IF StatusExpected(status, expected) /\ mode = "invoke" /\ EqInt(status, 202)
        THEN Verdict(PASS, <<"DEBUG accepted">>)
        ELSE IF scan /\ found = "raise" THEN OkRaises(<<>>)
        ELSE IF scan /\ found = "yes" THEN Verdict(FAIL, <<"DEBUG chaincode error">>)
        ELSE Verdict(FAIL, <<"DEBUG not expected">>)

\* ok of the script that runs
ok(scr, rec, mode, codes) ==
    IF scr = "test" THEN ok_test(rec, mode, codes) ELSE ok_gem(rec, mode, codes)

-----------------------------------------------------------------------------
(* The inputs: what the gateway may answer and what the callers pass *)

NoFields == <<>>

StatusFields ==
    {NoFields} \cup
    {[status |-> x] : x \in {PyStr(<<"VALID">>), PyStr(<<"valid">>), PyStr(<<"Valid">>),
                             PyStr(<<"INVALID">>), PyInt(200)}}

ShipmentList ==
    PyList(<<PyDict([id |-> PyStr(<<"SHIP1">>), status |-> PyStr(<<"CREATED">>)])>>)

ResultFields ==
    {NoFields} \cup
    {[result |-> x] : x \in
        {PyNone, PyStr(<<>>), PyStr(<<" ">>), PyStr(<<"null">>), PyStr(<<"[", "1", "]">>),
         PyStr(Serialise(ShipmentList)), PyStr(<<"not json">>),
         PyStr(<<"Description: ", "no such shipment">>), PyStr(<<"Chaincode Response">>),
         PyBool(FALSE), PyInt(0), PyList(<<>>), EmptyDict, ShipmentList}}

DetailsFields ==
    {NoFields} \cup
    {[details |-> x] : x \in
        {PyDict([error |-> PyStr(<<"Description: ", "no such shipment">>)]),
         PyDict([message |-> PyStr(<<"Chaincode Response">>)]),
         PyDict([error |-> PyStr(<<"Transaction Returned With Failure">>)]),
         PyDict([error |-> PyStr(<<>>), message |-> PyStr(<<"Description: ">>)]),
         PyDict([error |-> PyStr(<<"rate limited">>)]),
         PyDict([error |-> PyInt(5)]),
         PyDict([info |-> PyStr(<<"queued">>)]),
         EmptyDict,
         PyStr(<<"Description: ">>)}}

ErrFields == {NoFields, [err |-> PyStr(<<"gateway warning">>)]}

\* the details that decide a scan: none, a marker, no marker, a message that is
\* no string
ScanDetails ==
    {NoFields} \cup
    {[details |-> x] : x \in
        {PyDict([error |-> PyStr(<<"Description: ", "no such shipment">>)]),
         PyDict([error |-> PyStr(<<"rate limited">>)]),
         PyDict([error |-> PyInt(5)])}}

\* the JSON objects a 2xx body may hold
ObjectBodies ==
    {PyDict(s @@ d) : s \in StatusFields, d \in DetailsFields}
    \cup {PyDict(x @@ d) : x \in ResultFields, d \in ScanDetails}
    \cup {PyDict(s @@ x) : s \in {NoFields, [status |-> PyStr(<<"Valid">>)]},
                           x \in ResultFields}
    \cup {PyDict(e @@ x) : e \in ErrFields, x \in ResultFields}

\* JSON values that are no object
OtherJsonBodies ==
    {PyList(<<>>), PyList(<<PyInt(1), PyInt(5)>>),
     PyList(<<PyList(<<PyStr(<<"receipt">>), PyStr(<<"abc">>)>>)>>),
     PyStr(<<>>), PyStr(<<"accepted">>), PyInt(5), PyBool(TRUE), PyNone}

\* bodies that are not JSON
HtmlPage == <<"<html", ">", "Bad Gateway">>
NonJsonBodies == {HtmlPage, <<"{", "bad">>, <<"plain text">>}

SuccessCodes == {200, 201, 202}
ErrorCodes == {400, 409, 500}

SuccessBodies ==
    {<<>>} \cup NonJsonBodies \cup {Serialise(x) : x \in ObjectBodies \cup OtherJsonBodies}

ErrorBodies ==
    {<<>>} \cup NonJsonBodies
    \cup {Serialise(x) : x \in
            {PyDict([error |-> PyStr(<<"Description: ", "no such shipment">>)]),
             PyDict([error |-> PyStr(<<"Identity ", "is already registered">>)]),
             PyDict([error |-> PyStr(<<"<html", ">", "proxy error">>)]),
             PyDict([message |-> PyStr(<<"Chaincode Response">>)]),
             EmptyDict,
             PyList(<<PyInt(1)>>), PyList(<<EmptyDict>>), PyStr(<<"rate limited">>),
             PyStr(<<"{", "}">>), PyInt(5), PyNone}}

Responses ==
    {NetError(e) : e \in {<<"Connection refused">>, <<"timed out">>,
                          <<"CERTIFICATE_VERIFY_FAILED">>}}
    \cup {Success(c, b, FALSE) : c \in SuccessCodes, b \in SuccessBodies}
    \cup {Success(c, <<"plain text">>, TRUE) : c \in SuccessCodes}
    \cup {HttpError(c, b, FALSE) : c \in ErrorCodes, b \in ErrorBodies}
    \cup {HttpError(c, <<"plain text">>, TRUE) : c \in ErrorCodes}

Aliases == {"AliceAcres", "GraceAudits", "ghost_alias"}

\* the longest argument list a caller passes
MaxArgs == 2

ArgPool == <<PyStr(<<"SHIP1">>), PyInt(5), PyBool(TRUE), PyBytes(<<"raw">>)>>

\* the runs of at most MaxArgs consecutive values of the pool
ArgLists ==
    {<<>>} \cup UNION {{SubSeq(ArgPool, i, j) : j \in i..(i + MaxArgs - 1) \cap 1..Len(ArgPool)} :
                        i \in 1..Len(ArgPool)}

Call(alias, args, response) == [alias |-> alias, args |-> args, response |-> response]

\* the calls of the model: every answer of the gateway to one plain call, and
\* every alias and argument list with two plain answers
Calls ==
    {Call("AliceAcres", <<PyStr(<<"SHIP1">>)>>, x) : x \in Responses}
    \cup {Call(a, args, x) : a \in Aliases, args \in ArgLists,
                             x \in {Success(202, <<>>, FALSE), NetError(<<"timed out">>)}}

\* the expected_status_codes a caller may pass to ok
Overrides ==
    {PyNone} \cup {PyList(c) : c \in {<<PyInt(200)>>, <<PyInt(201)>>, <<PyInt(202)>>,
                                      <<PyInt(200), PyInt(202)>>}}

-----------------------------------------------------------------------------
(* The calling sequence: one call, its classification, the next call *)

Init ==
    /\ script \in {"test", "gemtest"}
    /\ method_type = "invoke"
    /\ pc = "idle"
    /\ op = "none"
    /\ resp = NoValue
    /\ sent = <<>>
    /\ r = NoValue
    /\ ret = NoValue
    /\ raised = FALSE
    /\ log = <<>>
    /\ override = NoValue
    /\ verdict = NoValue
    /\ call = NoValue
    /\ oks = 0
    /\ site = NoValue
    /\ SECRETS = EmptyDict
    /\ actual_full_ids = EmptyDict
    /\ frame = NoValue
    /\ exit_status = NoValue

\* how often the caller classifies one returned value
MaxOks == 2

\* the state after a wrapper ran with the gateway answering `response`
Called(name, mode, out, response) ==
    /\ method_type' = mode
    /\ pc' = "called"
    /\ op' = name
    /\ resp' = IF out.sent = <<>> \/ ~Serialisable(out.sent[1]) THEN NoValue ELSE response
    /\ sent' = out.sent
    /\ r' = out.r
    /\ ret' = out.ret
    /\ raised' = out.raised
    /\ log' = out.log
    /\ override' = NoValue
    /\ verdict' = NoValue
    /\ oks' = 0
    /\ UNCHANGED script
    /\ UNCHANGED mainvars

Invoke(alias, args, response) ==
    /\ pc = "idle"
    /\ \E out \in {invoke(script, alias, "CreateShipment", args, response)} :
          Called("invoke", "invoke", out, response)
    /\ call' = [alias |-> alias, args |-> args]

Query(alias, args, response) ==
    /\ pc = "idle"
    /\ \E out \in {query(script, alias, "GetShipmentPublicDetails", args, response)} :
          Called("query", "query", out, response)
    /\ call' = [alias |-> alias, args |-> args]

\* Ok in which ok() takes the status out of the record it classifies
Ok_PopsStatus(codes) ==
    /\ pc \in {"called", "classified"}
    /\ oks < MaxOks
    /\ ~raised
    /\ IsDict(ret)
    /\ \E v \in {ok(script, ret, method_type, codes)} :
          /\ verdict' = [raised |-> v.raised, val |-> v.val]
          /\ log' = v.log
    /\ ret' = PyDict([k \in DOMAIN V(ret) \ {"status"} |-> V(ret)[k]])
    /\ override' = codes
    /\ pc' = "classified"
    /\ oks' = oks + 1
    /\ UNCHANGED <<script, method_type, op, resp, sent, r, raised, call>>
    /\ UNCHANGED mainvars

\* the caller classifies the record it got back; it may do so again
Ok(codes) ==
    /\ pc \in {"called", "classified"}
    /\ oks < MaxOks
    /\ ~raised
    /\ IsDict(ret)
    /\ \E v \in {ok(script, ret, method_type, codes)} :
          /\ verdict' = [raised |-> v.raised, val |-> v.val]
          /\ log' = v.log
    /\ override' = codes
    /\ pc' = "classified"
    /\ oks' = oks + 1
    /\ UNCHANGED <<script, method_type, op, resp, sent, r, ret, raised, call>>
    /\ UNCHANGED mainvars

\* the caller drops the call's values and goes on to its next call
NextCall ==
    /\ pc \in {"called", "classified"}
    /\ pc' = "idle"
    /\ op' = "none"
    /\ resp' = NoValue
    /\ sent' = <<>>
    /\ r' = NoValue
    /\ ret' = NoValue
    /\ raised' = FALSE
    /\ log' = <<>>
    /\ override' = NoValue
    /\ verdict' = NoValue
    /\ call' = NoValue
    /\ oks' = 0
    /\ UNCHANGED <<script, method_type>>
    /\ UNCHANGED mainvars

Next ==
    \/ \E c \in Calls : Invoke(c.alias, c.args, c.response)
    \/ \E c \in Calls : Query(c.alias, c.args, c.response)
    \/ \E codes \in Overrides : Ok(codes)
    \/ NextCall

Spec == Init /\ [][Next]_vars

-----------------------------------------------------------------------------
(* The identity service: register_kaleido_identity and enroll_kaleido_identity *)

IDENTITY_URL == <<"https://", "identity-service", "/identities">>

\* one call of _req as the identity helpers make it
Request(method, url, payload) == [method |-> method, url |-> url, payload |-> payload]

\* str(x) of any value of the model
StrText(x) == IF TypeOf(x) \in {"list", "dict"} THEN Serialise(x) ELSE V(PyStrOf(x))

\* `word in x`: a substring test on a str, an element test on a list, a key test
\* on a dict, and a TypeError on a number, a bool or None
WordIn(word, x) ==
    CASE TypeOf(x) = "str"  -> IF Contains(V(x), word) THEN "yes" ELSE "no"
      [] TypeOf(x) = "list" ->
            IF \E i \in 1..Len(V(x)) : V(x)[i] = PyStr(<<word>>) THEN "yes" ELSE "no"
      [] TypeOf(x) = "dict" -> IF word \in DOMAIN V(x) THEN "yes" ELSE "no"
      [] OTHER -> "raise"

\* "Identity" in error_detail and "is already registered" in error_detail
AlreadyRegistered(error_detail) ==
    IF WordIn("Identity", error_detail) = "yes"
    THEN WordIn("is already registered", error_detail)
    ELSE WordIn("Identity", error_detail)

\* r.get("status") == 409 or "already exists" in
\* str(r.get("details", {}).get("error", "")).lower(); details that are no dict
\* have no .get
LikelyExists(rec) ==
    LET details == GetOr(rec, "details", EmptyDict)
    IN  IF EqInt(Get(rec, "status"), 409) THEN "yes"
        ELSE IF ~IsDict(details) THEN "raise"
        ELSE IF Contains(Lower(StrText(GetOr(details, "error", PyStr(<<>>)))),
                         "already exists")
        THEN "yes" ELSE "no"

\* what a helper of the identity service hands back: whether an exception
\* escaped, the boolean it returned, the requests it made, SECRETS afterwards
\* and its log lines
IdentityOutcome(exc, value, requests, secrets, lines) ==
    [raised |-> exc, ret |-> value, sent |-> requests, SECRETS |-> secrets,
     log |-> lines]

\* the look-up that follows a registration answered "already there": True if
\* and only if the GET record has status 200
ConfirmExists_Trusting(kid, secrets, post, line, g) ==
    IF g.raised
    THEN IdentityOutcome(TRUE, NoValue, <<post, Request("GET", IDENTITY_URL \o <<"/", kid>>, PyNone)>>,
                         secrets, <<"Attempting", line>>)
    ELSE IdentityOutcome(FALSE, PyBool(TRUE),
                         <<post, Request("GET", IDENTITY_URL \o <<"/", kid>>, PyNone)>>,
                         secrets, <<"Attempting", line, "Confirmed">>)

ConfirmExists(kid, secrets, post, line, g) ==
    IF g.raised
    THEN IdentityOutcome(TRUE, NoValue, <<post, Request("GET", IDENTITY_URL \o <<"/", kid>>, PyNone)>>,
                         secrets, <<"Attempting", line>>)
    ELSE IF EqInt(Get(g.val, "status"), 200)
    THEN IdentityOutcome(FALSE, PyBool(TRUE),
                         <<post, Request("GET", IDENTITY_URL \o <<"/", kid>>, PyNone)>>,
                         secrets, <<"Attempting", line, "Confirmed">>)
    ELSE IdentityOutcome(FALSE, PyBool(FALSE),
                         <<post, Request("GET", IDENTITY_URL \o <<"/", kid>>, PyNone)>>,
                         secrets, <<"Attempting", line, "WARNING">>)

\* SECRETS[kid] = r["secret"]
StoreSecret(kid, secrets, rec) == Put(secrets, kid, Get(rec, "secret"))

\* register_kaleido_identity after its POST returned `got`; `get` answers the GET
\* if one is made
RegisterAfterPost(kid, secrets, post, got, get) ==
    IF got.raised THEN IdentityOutcome(TRUE, NoValue, <<post>>, secrets, <<"Attempting">>)
    ELSE IF Truthy(Get(got.val, "secret"))
    THEN IdentityOutcome(FALSE, PyBool(TRUE), <<post>>, StoreSecret(kid, secrets, got.val),
                         <<"Attempting", "secret stored">>)
    ELSE IF EqInt(Get(got.val, "status"), 500) /\ IsDict(Get(got.val, "details"))
    THEN CHOOSE res \in
            {CASE found = "raise" ->
                    IdentityOutcome(TRUE, NoValue, <<post>>, secrets, <<"Attempting">>)
               [] found = "yes" ->
                    CHOOSE res2 \in {ConfirmExists(kid, secrets, post, "already registered", g) :
                                        g \in {_req(PyNone, get)}} : TRUE
               [] found = "no" ->
                    IdentityOutcome(FALSE, PyBool(FALSE), <<post>>, secrets,
                                    <<"Attempting", "ERROR">>) :
                found \in {AlreadyRegistered(GetOr(Get(got.val, "details"), "error",
                                                   PyStr(<<>>)))}} : TRUE
    ELSE CHOOSE res \in
            {CASE likely = "raise" ->
                    IdentityOutcome(TRUE, NoValue, <<post>>, secrets, <<"Attempting">>)
               [] likely = "yes" ->
                    CHOOSE res2 \in {ConfirmExists(kid, secrets, post, "likely already exists", g) :
                                        g \in {_req(PyNone, get)}} : TRUE
               [] likely = "no" ->
                    IdentityOutcome(FALSE, PyBool(FALSE), <<post>>, secrets,
                                    <<"Attempting", "ERROR">>) :
                likely \in {LikelyExists(got.val)}} : TRUE

\* register_kaleido_identity(kid) with ENABLE_ENROLLMENT = True; `posted`
\* answers the POST and `get` the GET
register_kaleido_identity(kid, secrets, posted, get) ==
    LET payload == PyDict([name |-> PyStr(<<kid>>), type |-> PyStr(<<"client">>)])
    IN  CHOOSE res \in
            {RegisterAfterPost(kid, secrets, Request("POST", IDENTITY_URL, payload), got, get) :
                got \in {_req(payload, posted)}} : TRUE

\* the branch of enroll_kaleido_identity without a secret: one GET
EnrollmentStatus(kid, secrets, g) ==
    LET request == Request("GET", IDENTITY_URL \o <<"/", kid>>, PyNone)
    IN  IF g.raised
        THEN IdentityOutcome(TRUE, NoValue, <<request>>, secrets, <<"Attempting", "No new secret">>)
        ELSE IF EqInt(Get(g.val, "status"), 200) /\ Truthy(Get(g.val, "enrollmentCert"))
        THEN IdentityOutcome(FALSE, PyBool(TRUE), <<request>>, secrets,
                             <<"Attempting", "No new secret", "already enrolled">>)
        ELSE IF EqInt(Get(g.val, "status"), 200)
        THEN IdentityOutcome(FALSE, PyBool(FALSE), <<request>>, secrets,
                             <<"Attempting", "No new secret", "not enrolled">>)
        ELSE IdentityOutcome(FALSE, PyBool(FALSE), <<request>>, secrets,
                             <<"Attempting", "No new secret", "ERROR">>)

\* the branch with a secret: the enroll POST
EnrollWithSecret(kid, secrets, payload, got) ==
    LET request == Request("POST", IDENTITY_URL \o <<"/", kid, "/enroll">>, payload)
    IN  IF got.raised
        THEN IdentityOutcome(TRUE, NoValue, <<request>>, secrets, <<"Attempting">>)
        ELSE IF EqInt(Get(got.val, "status"), 200) \/ EqInt(Get(got.val, "status"), 201)
        THEN IdentityOutcome(FALSE, PyBool(TRUE), <<request>>, secrets,
                             <<"Attempting", "enrolled successfully">>)
        ELSE IdentityOutcome(FALSE, PyBool(FALSE), <<request>>, secrets,
                             <<"Attempting", "ERROR">>)

\* the secret enroll looks up under another roster entry's kid
SecretFor_Neighbour(kid, secrets) ==
    LET others == DOMAIN V(secrets) \ {kid}
    IN  IF HasKey(secrets, kid) THEN Get(secrets, kid)
        ELSE IF others # {} THEN Get(secrets, CHOOSE k \in others : TRUE)
        ELSE PyNone

\* secret = SECRETS.get(kid)
SecretFor(kid, secrets) == Get(secrets, kid)

\* enroll_kaleido_identity(kid) with ENABLE_ENROLLMENT = True; `answer` answers
\* the one request it makes
enroll_kaleido_identity(kid, secrets, answer) ==
    CHOOSE res \in
        {IF ~Truthy(secret)
         THEN CHOOSE res2 \in {EnrollmentStatus(kid, secrets, g) :
                                  g \in {_req(PyNone, answer)}} : TRUE
         ELSE CHOOSE res2 \in {EnrollWithSecret(kid, secrets, PyDict([secret |-> secret]), got) :
                                  got \in {_req(PyDict([secret |-> secret]), answer)}} : TRUE :
            secret \in {SecretFor(kid, secrets)}} : TRUE

\* what the identity service may answer to a request
IdentityAnswers ==
    {Success(201, Serialise(PyDict([secret |-> PyStr(<<"s3cr3t">>)])), FALSE),
     Success(200, Serialise(PyDict([secret |-> PyStr(<<>>)])), FALSE),
     Success(200, Serialise(PyDict([enrollmentCert |-> PyStr(<<"cert">>)])), FALSE),
     Success(200, Serialise(PyDict([name |-> PyStr(<<"known">>)])), FALSE),
     HttpError(500, Serialise(PyDict([error |->
                        PyStr(<<"Identity", " ", "is already registered">>)])), FALSE),
     HttpError(500, Serialise(PyDict([error |-> PyStr(<<"internal error">>)])), FALSE),
     HttpError(500, Serialise(PyDict([error |-> PyInt(5)])), FALSE),
     HttpError(409, Serialise(PyDict([error |-> PyStr(<<"conflict">>)])), FALSE),
     HttpError(400, Serialise(PyDict([error |-> PyStr(<<"Already Exists">>)])), FALSE),
     HttpError(400, Serialise(PyList(<<EmptyDict>>)), FALSE),
     HttpError(400, <<"plain text">>, TRUE),
     NetError(<<"Connection refused">>)}

-----------------------------------------------------------------------------
(* main(): the enrollment phase (ENABLE_ENROLLMENT = True) *)

Enrollment(i) == [phase |-> "enrollment", kid |-> i]

InitIdentity ==
    /\ script \in {"test", "gemtest"}
    /\ method_type = "invoke"
    /\ pc = "idle"
    /\ op = "none"
    /\ resp = <<>>
    /\ sent = <<>>
    /\ r = NoValue
    /\ ret = NoValue
    /\ raised = FALSE
    /\ log = <<>>
    /\ override = NoValue
    /\ verdict = NoValue
    /\ call = NoValue
    /\ oks = 0
    /\ site = Enrollment(1)
    /\ SECRETS = EmptyDict
    /\ actual_full_ids = EmptyDict
    /\ frame = [identities_fully_ready |-> TRUE]
    /\ exit_status = NoValue

\* the state after a helper of the identity service ran; an exception that
\* leaves the helper leaves main() too and ends the process with status 1
IdentityCalled(name, out, answers, lines) ==
    /\ op' = name
    /\ resp' = SubSeq(answers, 1, Len(out.sent))
    /\ sent' = out.sent
    /\ ret' = out.ret
    /\ raised' = out.raised
    /\ log' = out.log \o lines
    /\ SECRETS' = out.SECRETS
    /\ exit_status' = IF out.raised THEN PyInt(1) ELSE NoValue
    /\ call' = [kid |-> ID_ROSTER[site.kid].kid]
    /\ UNCHANGED <<script, method_type, r, override, verdict, oks, site, actual_full_ids>>

\* if not register_kaleido_identity(kid_name_in_roster): log(WARNING)
Register(posted, get) ==
    /\ site.phase = "enrollment"
    /\ pc = "idle"
    /\ \E out \in {register_kaleido_identity(ID_ROSTER[site.kid].kid, SECRETS, posted, get)} :
          /\ Len(out.sent) = 2 \/ get = posted
          /\ IdentityCalled("register_kaleido_identity", out, <<posted, get>>,
                            IF out.ret = PyBool(FALSE) THEN <<"WARNING: Registration check">>
                            ELSE <<>>)
          /\ pc' = IF out.raised THEN "raised" ELSE "registered"
    /\ UNCHANGED frame

\* if not enroll_kaleido_identity(kid_name_in_roster): log(ERROR);
\* identities_fully_ready = False
Enroll(answer) ==
    /\ site.phase = "enrollment"
    /\ pc = "registered"
    /\ \E out \in {enroll_kaleido_identity(ID_ROSTER[site.kid].kid, SECRETS, answer)} :
          /\ IdentityCalled("enroll_kaleido_identity", out, <<answer>>,
                            IF out.ret = PyBool(FALSE) THEN <<"ERROR: Crucial enrollment failed">>
                            ELSE <<>>)
          /\ pc' = IF out.raised THEN "raised" ELSE "enrolled"
          /\ frame' = [identities_fully_ready |->
                          frame.identities_fully_ready /\ out.ret # PyBool(FALSE)]

\* the for loop takes the next roster entry
NextIdentity ==
    /\ site.phase = "enrollment"
    /\ pc = "enrolled"
    /\ site.kid < Len(ID_ROSTER)
    /\ site' = Enrollment(site.kid + 1)
    /\ pc' = "idle"
    /\ op' = "none"
    /\ resp' = <<>>
    /\ sent' = <<>>
    /\ ret' = NoValue
    /\ log' = <<>>
    /\ call' = NoValue
    /\ UNCHANGED <<script, method_type, r, raised, override, verdict, oks, SECRETS,
                   actual_full_ids, frame, exit_status>>

\* after the loop: sys.exit(1) unless every enrollment was confirmed, else on
\* to the retrieval of the full IDs
LeaveEnrollment ==
    /\ site.phase = "enrollment"
    /\ pc = "enrolled"
    /\ site.kid = Len(ID_ROSTER)
    /\ IF frame.identities_fully_ready
       THEN /\ site' = [phase |-> "full_ids", kid |-> 1]
            /\ pc' = "idle"
            /\ log' = <<"All Kaleido identities checked and confirmed enrolled.">>
            /\ exit_status' = NoValue
       ELSE /\ site' = site
            /\ pc' = "exited"
            /\ log' = <<"FATAL">>
            /\ exit_status' = PyInt(1)
    /\ op' = "none"
    /\ resp' = <<>>
    /\ sent' = <<>>
    /\ ret' = NoValue
    /\ call' = NoValue
    /\ UNCHANGED <<script, method_type, r, raised, override, verdict, oks, SECRETS,
                   actual_full_ids, frame>>

NextIdentityPhase ==
    \/ \E posted \in IdentityAnswers, get \in IdentityAnswers : Register(posted, get)
    \/ \E answer \in IdentityAnswers : Enroll(answer)
    \/ NextIdentity
    \/ LeaveEnrollment

SpecIdentity == InitIdentity /\ [][NextIdentityPhase]_vars

-----------------------------------------------------------------------------
(* main(): the chaincode phases.  A site is a call of invoke or query in     *)
(* main(); main() stands before the call (pc = "idle") or has its result     *)
(* in hand (pc = "called").                                                   *)

At(label) == [phase |-> label, kid |-> 0]
Loop(label, i) == [phase |-> label, kid |-> i]

\* the roster entries main() names
Cast ==
    [admin |-> ID_ROSTER[1], farmer |-> ID_ROSTER[2], bob |-> ID_ROSTER[3],
     charlie |-> ID_ROSTER[4], dave |-> ID_ROSTER[5], eve |-> ID_ROSTER[6],
     frank |-> ID_ROSTER[7], grace |-> ID_ROSTER[8]]

\* the full X.509 ID the chaincode knows the caller `kid` by
FullId(kid) == PyStr(<<"x509::", kid>>)

\* BASE_SHIPMENT_ID + suffix
ShipmentId(suffix) == PyStr(<<"SHIP", suffix>>)

\* json.dumps(data), get_current_utc_timestamp() and literals, by their names
Text(name) == PyStr(<<name>>)

\* a call of invoke() or query()
CallOf(wrapper, alias, func, args) ==
    [wrapper |-> wrapper, alias |-> alias, func |-> func, args |-> args]

\* the RegisterIdentity call for a roster entry
RegisterIdentityOf(entry, ids) ==
    CallOf("invoke", Cast.admin.alias, "RegisterIdentity",
             <<Get(ids, entry.kid), Text(entry.alias), Text(entry.alias)>>)

\* the shipment of an iteration of gemtest.py's input loop
InputShipment(j) == ShipmentId(IF j = 1 THEN "_INPUT_001" ELSE "_INPUT_002")

\* the call main() makes at a site: those of test.py's main(), which the first
\* phases of gemtest.py's main() repeat, then those of gemtest.py's later phases
CallAt(scr, st, ids) ==
    CASE st.phase = "full_ids" ->
            CallOf("query", ID_ROSTER[st.kid].alias, "TestGetCallerIdentity", <<>>)
      [] st.phase = "pre_register" -> RegisterIdentityOf(Cast.admin, ids)
      [] st.phase = "bootstrap" -> CallOf("invoke", Cast.admin.alias, "BootstrapLedger", <<>>)
      [] st.phase = "register" -> RegisterIdentityOf(ID_ROSTER[st.kid], ids)
      [] st.phase = "assign_role" ->
            CallOf("invoke", Cast.admin.alias, "AssignRoleToIdentity",
                     <<Text(ID_ROSTER[st.kid].alias), Text(ID_ROSTER[st.kid].role)>>)
      [] st.phase = "grace_register" -> RegisterIdentityOf(Cast.grace, ids)
      [] st.phase = "make_admin" ->
            CallOf("invoke", Cast.admin.alias, "MakeIdentityAdmin", <<Text(Cast.grace.alias)>>)
      [] st.phase = "sanity" ->
            CallOf("query", Cast.admin.alias, "GetIdentityDetails", <<Text(Cast.admin.alias)>>)
      [] st.phase = "create_ship1" ->
            CallOf("invoke", Cast.farmer.alias, "CreateShipment",
                     <<ShipmentId("_001"), Text("Organic Strawberries"),
                       Text("Premium Grade A"), Text("250.5"), Text("kg"),
                       Text("farmer_data_1")>>)
      [] st.phase = "confirm_ship1" ->
            CallOf("query", IF scr = "test" THEN Cast.farmer.alias ELSE Cast.admin.alias,
                    "GetShipmentPublicDetails", <<ShipmentId("_001")>>)
      [] st.phase = "submit_cert" ->
            CallOf("invoke", Cast.farmer.alias, "SubmitForCertification", <<ShipmentId("_001")>>)
      [] st.phase = "record_cert" ->
            CallOf("invoke", Cast.frank.alias, "RecordCertification",
                     <<ShipmentId("_001"), Text("current_ts"), Text("CertHashStrawberry001"),
                       Text("APPROVED"), Text("Looks Good")>>)
      [] st.phase = "process" ->
            CallOf("invoke", Cast.bob.alias, "ProcessShipment",
                     <<ShipmentId("_001"), Text("processor_data_1")>>)
      [] st.phase = "distribute" ->
            CallOf("invoke", Cast.dave.alias, "DistributeShipment",
                     <<ShipmentId("_001"), Text("distributor_data_1")>>)
      [] st.phase = "receive" ->
            CallOf("invoke", Cast.eve.alias, "ReceiveShipment",
                     <<ShipmentId("_001"), Text("retailer_data_1")>>)
      [] st.phase = "archive" ->
            CallOf("invoke", Cast.admin.alias, "ArchiveShipment",
                     <<ShipmentId("_001"), Text("Test archive reason")>>)
      [] st.phase \in {"archive_check", "unarchive_check"} ->
            CallOf("query", Cast.admin.alias, "GetShipmentPublicDetails", <<ShipmentId("_001")>>)
      [] st.phase = "unarchive" ->
            CallOf("invoke", Cast.admin.alias, "UnarchiveShipment", <<ShipmentId("_001")>>)
      [] st.phase = "full_id_for_alias" ->
            CallOf("query", Cast.admin.alias, "GetFullIDForAlias", <<Text(Cast.farmer.alias)>>)
      [] st.phase = "temp_role" ->
            CallOf("invoke", Cast.admin.alias, "AssignRoleToIdentity",
                     <<Text(Cast.farmer.alias), Text("certifier")>>)
      [] st.phase \in {"temp_role_check", "remove_role_check", "self_check"} ->
            CallOf("query", Cast.admin.alias, "GetIdentityDetails", <<Text(Cast.farmer.alias)>>)
      [] st.phase \in {"remove_role", "cleanup_role"} ->
            CallOf("invoke", Cast.admin.alias, "RemoveRoleFromIdentity",
                     <<Text(Cast.farmer.alias), Text("certifier")>>)
      [] st.phase = "remove_admin" ->
            CallOf("invoke", Cast.admin.alias, "RemoveIdentityAdmin", <<Text(Cast.grace.alias)>>)
      [] st.phase = "remove_admin_check" ->
            CallOf("query", Cast.admin.alias, "GetIdentityDetails", <<Text(Cast.grace.alias)>>)
      [] st.phase = "restore_admin" ->
            CallOf("invoke", Cast.admin.alias, "MakeIdentityAdmin", <<Text(Cast.grace.alias)>>)
      [] st.phase = "all_identities" -> CallOf("query", Cast.admin.alias, "GetAllIdentities", <<>>)
      [] st.phase = "input_create" ->
            CallOf("invoke", Cast.farmer.alias, "CreateShipment",
                     <<InputShipment(st.kid),
                       Text(IF st.kid = 1 THEN "Organic Apples" ELSE "Organic Pears"),
                       Text("For juicing"),
                       Text("100"), Text("kg"), Text("fdata")>>)
      [] st.phase = "input_process" ->
            CallOf("invoke", Cast.charlie.alias, "ProcessShipment",
                     <<InputShipment(st.kid), Text("pdata_simple")>>)
      [] st.phase = "transform" ->
            CallOf("invoke", Cast.charlie.alias, "TransformAndCreateProducts",
                     <<Text("input_consumption_json"), Text("new_products_data_json"),
                       Text("processor_data_transform_json")>>)
      [] st.phase = "transform_check_input" ->
            CallOf("query", Cast.admin.alias, "GetShipmentPublicDetails", <<InputShipment(st.kid)>>)
      [] st.phase = "transform_check_output" ->
            CallOf("query", Cast.admin.alias, "GetShipmentPublicDetails", <<ShipmentId("_OUTPUT_001")>>)
      [] st.phase = "my_shipments" ->
            CallOf("query", Cast.farmer.alias, "GetMyShipments", <<Text("5"), PyStr(<<>>)>>)
      [] st.phase = "all_shipments" ->
            CallOf("query", Cast.admin.alias, "GetAllShipments", <<Text("3"), PyStr(<<>>)>>)
      [] st.phase = "by_status" ->
            CallOf("query", Cast.admin.alias, "GetShipmentsByStatus",
                    <<Text("CREATED"), Text("5"), PyStr(<<>>)>>)
      [] st.phase = "recall_create" ->
            CallOf("invoke", Cast.farmer.alias, "CreateShipment",
                     <<ShipmentId("_RECALL_MAIN_001"), Text("Organic Tomatoes"),
                       Text("Vine Ripe"), Text("500"), Text("kg"), Text("fdata_recall")>>)
      [] st.phase = "recall_submit" ->
            CallOf("invoke", Cast.farmer.alias, "SubmitForCertification", <<ShipmentId("_RECALL_MAIN_001")>>)
      [] st.phase = "recall_record" ->
            CallOf("invoke", Cast.frank.alias, "RecordCertification",
                     <<ShipmentId("_RECALL_MAIN_001"), Text("current_ts"),
                       Text("CertHashTomato001"), Text("APPROVED"), Text("Prime quality")>>)
      [] st.phase = "recall_process" ->
            CallOf("invoke", Cast.bob.alias, "ProcessShipment",
                     <<ShipmentId("_RECALL_MAIN_001"), Text("pdata_recall")>>)
      [] st.phase = "recall_distribute" ->
            CallOf("invoke", Cast.dave.alias, "DistributeShipment",
                     <<ShipmentId("_RECALL_MAIN_001"), Text("ddata_recall")>>)
      [] st.phase = "recall_receive" ->
            CallOf("invoke", Cast.eve.alias, "ReceiveShipment",
                     <<ShipmentId("_RECALL_MAIN_001"), Text("rdata_recall")>>)
      [] st.phase = "initiate_recall" ->
            CallOf("invoke", Cast.eve.alias, "InitiateRecall",
                     <<ShipmentId("_RECALL_MAIN_001"), Text("recall_event_id"),
                       Text("Suspected contamination during retail display")>>)
      [] st.phase = "recall_check" ->
            CallOf("query", Cast.admin.alias, "GetShipmentPublicDetails", <<ShipmentId("_RECALL_MAIN_001")>>)
      [] st.phase = "linked_create" ->
            CallOf("invoke", Cast.farmer.alias, "CreateShipment",
                     <<ShipmentId("_RECALL_LINKED_001"), Text("Organic Bell Peppers"),
                       Text("Mixed Colors"), Text("200"), Text("kg"), Text("fdata_linked")>>)
      [] st.phase = "linked_process" ->
            CallOf("invoke", Cast.bob.alias, "ProcessShipment",
                     <<ShipmentId("_RECALL_LINKED_001"), Text("pdata_linked")>>)
      [] st.phase = "add_linked" ->
            CallOf("invoke", Cast.admin.alias, "AddLinkedShipmentsToRecall",
                     <<Text("recall_event_id"), ShipmentId("_RECALL_MAIN_001"),
                       Text("linked_ids_json")>>)
      [] st.phase = "linked_check" ->
            CallOf("query", Cast.admin.alias, "GetShipmentPublicDetails", <<ShipmentId("_RECALL_LINKED_001")>>)
      [] st.phase = "related" ->
            CallOf("query", Cast.admin.alias, "QueryRelatedShipments",
                    <<ShipmentId("_RECALL_MAIN_001"), Text("24")>>)
      [] st.phase = "assign_self" ->
            CallOf("invoke", Cast.farmer.alias, "TestAssignRoleToSelf", <<Text("certifier")>>)

\* the sites inside a try block of main()
InTry(st) ==
    st.phase \in {"pre_register", "bootstrap", "register", "assign_role", "grace_register",
                  "make_admin"}

\* the sites whose result main() hands to ok()
Classifies(st) == CallAt("gemtest", st, EmptyDict).wrapper = "invoke" /\ st.phase # "restore_admin"

\* the mode invoke() and query() store in method_type when they are entered
ModeOnEntry_Swapped(wrapper) == IF wrapper = "invoke" THEN "query" ELSE "invoke"

ModeOnEntry(wrapper) == wrapper

-----------------------------------------------------------------------------
(* main(): what it reads in the results *)

\* `pattern in text` for two strs, as runs of lexemes
HasRun(text, pattern) ==
    \E i \in 0..(Len(text) - Len(pattern)) : SubSeq(text, i + 1, i + Len(pattern)) = pattern

\* `pattern in x`: a substring test on a str, an element test on a list, a key test
\* on a dict, and a TypeError on a number, a bool or None
TextIn(pattern, x) ==
    CASE TypeOf(x) = "str"  -> IF HasRun(V(x), pattern) THEN "yes" ELSE "no"
      [] TypeOf(x) = "list" ->
            IF \E i \in 1..Len(V(x)) : V(x)[i] = PyStr(pattern) THEN "yes" ELSE "no"
      [] TypeOf(x) = "dict" ->
            IF Len(pattern) = 1 /\ pattern[1] \in DOMAIN V(x) THEN "yes" ELSE "no"
      [] OTHER -> "raise"

\* a and b of two tests that may raise
Both(a, b) == IF a = "yes" THEN b ELSE a

\* error_msg_detail of a record that ok() did not pass
ErrorMsgDetail(rec) ==
    IF IsDict(Get(rec, "details"))
    THEN PyOr(GetOr(Get(rec, "details"), "error", PyStr(<<>>)),
              GetOr(Get(rec, "details"), "message", PyStr(<<>>)))
    ELSE PyStr(<<>>)

\* OwnIdInUse that takes any 'already in use by identity' message for the own ID
OwnIdInUse_AnyId(scr, phase, msg, full_id) ==
    TextIn(<<"already in use", " by identity">>, msg)

\* the test main() makes of a failed registration: the alias is held by full_id
OwnIdInUse(scr, phase, msg, full_id) ==
    IF scr = "gemtest" /\ phase = "register"
    THEN Both(TextIn(<<"shortName (alias)">>, msg),
              TextIn(<<"is ", "already in use", " by identity", " '">> \o V(full_id) \o <<"'">>,
                     msg))
    ELSE Both(TextIn(<<"already in use", " by identity">>, msg), TextIn(V(full_id), msg))

\* the second test of a failed registration: the alias is held by some identity
AliasInUse(scr, phase, msg) ==
    CASE phase = "pre_register" ->
            Both(TextIn(<<"shortName (alias)">>, msg), TextIn(<<"is ", "already in use">>, msg))
      [] scr = "gemtest" /\ phase = "register" ->
            Both(TextIn(<<"shortName (alias)">>, msg),
                 TextIn(<<"is ", "already in use", " by identity">>, msg))
      [] OTHER -> "no"

\* what main() makes of a classified record: "PASS", "FAIL", and for a failed
\* registration "own", "taken" or "FAIL"; "raise" when a test raises
ClassifiedAs(scr, st, v, rec, ids) ==
    CASE v.raised -> "raise"
      [] ~v.raised /\ v.val = PASS -> "PASS"
      [] ~v.raised /\ v.val = FAIL /\ st.phase \in {"pre_register", "register", "grace_register"} ->
            LET msg == ErrorMsgDetail(rec)
                entry == CASE st.phase = "pre_register" -> Cast.admin
                           [] st.phase = "register" -> ID_ROSTER[st.kid]
                           [] OTHER -> Cast.grace
                own == OwnIdInUse(scr, st.phase, msg, Get(ids, entry.kid))
            IN  CASE own = "yes" -> "own"
                  [] own = "raise" -> "raise"
                  [] OTHER ->
                        LET taken == AliasInUse(scr, st.phase, msg)
                        IN  CASE taken = "yes" -> "taken"
                              [] taken = "raise" -> "raise"
                              [] OTHER -> "FAIL"
      [] ~v.raised /\ v.val = FAIL /\ st.phase = "bootstrap" ->
            IF TextIn(<<"system already has admins or is bootstrapped">>,
                      ErrorMsgDetail(rec)) = "raise"
            THEN "raise" ELSE "FAIL"
      [] OTHER -> "FAIL"

\* for item in x: item.get(...)
EachGet(x) ==
    CASE TypeOf(x) = "list" ->
            IF \A i \in 1..Len(V(x)) : IsDict(V(x)[i]) THEN "yes" ELSE "raise"
      [] TypeOf(x) \in {"str", "dict"} -> IF Truthy(x) THEN "raise" ELSE "yes"
      [] OTHER -> "raise"

\* x.get("recallInfo", {}).get(key)
RecallInfo(x, key) ==
    IF IsDict(GetOr(x, "recallInfo", EmptyDict))
    THEN Return(Get(GetOr(x, "recallInfo", EmptyDict), key))
    ELSE Raise(<<"AttributeError">>)

\* the condition main() tests on the value a query returned: "yes", "no", or
\* "raise" when the test or the branch it selects raises
Inspect(scr, st, x, ids) ==
    IF ~IsDict(x) /\ st.phase \notin {"full_id_for_alias", "all_identities", "related",
                                      "restore_admin"}
    THEN "no" ELSE
    CASE st.phase = "full_ids" ->
            IF ~Truthy(Get(x, "fullId")) THEN "no"
            ELSE IF ~IsStr(Get(x, "fullId")) THEN "raise"
            ELSE IF Head(V(Get(x, "fullId"))) = "ERROR" THEN "no" ELSE "yes"
      [] st.phase = "sanity" ->
            IF Get(x, "shortName") = Text(Cast.admin.alias) /\ Get(x, "isAdmin") = PyBool(TRUE)
            THEN "yes" ELSE "no"
      [] st.phase = "confirm_ship1" -> IF Get(x, "id") = ShipmentId("_001") THEN "yes" ELSE "no"
      [] st.phase = "archive_check" -> IF Get(x, "isArchived") = PyBool(TRUE) THEN "yes" ELSE "no"
      [] st.phase = "unarchive_check" -> IF Get(x, "isArchived") = PyBool(FALSE) THEN "yes" ELSE "no"
      [] st.phase = "full_id_for_alias" ->
            IF \/ IsStr(x) /\ x = Get(ids, Cast.farmer.kid)
               \/ IsDict(x) /\ Get(x, "result") = Get(ids, Cast.farmer.kid)
            THEN "yes" ELSE "no"
      [] st.phase \in {"temp_role_check", "self_check"} ->
            TextIn(<<"certifier">>, GetOr(x, "roles", PyList(<<>>)))
      [] st.phase = "remove_role_check" ->
            CASE TextIn(<<"certifier">>, GetOr(x, "roles", PyList(<<>>))) = "yes" -> "no"
              [] TextIn(<<"certifier">>, GetOr(x, "roles", PyList(<<>>))) = "no" -> "yes"
              [] OTHER -> "raise"
      [] st.phase = "remove_admin_check" -> IF Get(x, "isAdmin") = PyBool(FALSE) THEN "yes" ELSE "no"
      [] st.phase = "all_identities" ->
            IF TypeOf(x) = "list" /\ Len(V(x)) >= Len(ID_ROSTER) THEN "yes" ELSE "no"
      [] st.phase = "transform_check_input" ->
            IF Get(x, "status") = Text("CONSUMED_IN_PROCESSING") THEN "yes" ELSE "no"
      [] st.phase = "transform_check_output" ->
            IF Get(x, "id") = ShipmentId("_OUTPUT_001") /\ Get(x, "isDerivedProduct") = PyBool(TRUE)
            THEN Both(TextIn(V(InputShipment(1)), GetOr(x, "inputShipmentIds", PyList(<<>>))),
                      TextIn(V(InputShipment(2)), GetOr(x, "inputShipmentIds", PyList(<<>>))))
            ELSE "no"
      [] st.phase \in {"my_shipments", "all_shipments", "by_status"} ->
            IF HasKey(x, "shipments") THEN EachGet(Get(x, "shipments")) ELSE "no"
      [] st.phase = "recall_check" ->
            CASE RecallInfo(x, "isRecalled").raised -> "raise"
              [] /\ RecallInfo(x, "isRecalled").val = PyBool(TRUE)
                 /\ Get(x, "status") = Text("RECALLED")
                 /\ RecallInfo(x, "recallId").val = Text("recall_event_id") -> "yes"
              [] OTHER -> "no"
      [] st.phase = "linked_check" ->
            CASE RecallInfo(x, "isRecalled").raised -> "raise"
              [] /\ RecallInfo(x, "isRecalled").val = PyBool(TRUE)
                 /\ RecallInfo(x, "recallId").val = Text("recall_event_id") -> "yes"
              [] OTHER -> "no"
      [] st.phase = "related" -> IF TypeOf(x) = "list" THEN EachGet(x) ELSE "no"
      [] OTHER -> "yes"

-----------------------------------------------------------------------------
(* main(): where it goes next *)

\* the calls after a call that passed (or whose test said yes) and after one
\* that did not; "exit" is sys.exit(1), "done" the end of main()
TestFlow ==
    [pre_register   |-> [pass |-> "bootstrap",      fail |-> "bootstrap"],
     grace_register |-> [pass |-> "make_admin",     fail |-> "sanity"],
     make_admin     |-> [pass |-> "sanity",         fail |-> "sanity"],
     sanity         |-> [pass |-> "create_ship1",   fail |-> "create_ship1"],
     create_ship1   |-> [pass |-> "confirm_ship1",  fail |-> "confirm_ship1"],
     confirm_ship1  |-> [pass |-> "submit_cert",    fail |-> "exit"],
     submit_cert    |-> [pass |-> "record_cert",    fail |-> "record_cert"],
     record_cert    |-> [pass |-> "process",        fail |-> "process"],
     process        |-> [pass |-> "distribute",     fail |-> "distribute"],
     distribute     |-> [pass |-> "receive",        fail |-> "receive"],
     receive        |-> [pass |-> "done",           fail |-> "done"]]

\* GemFlow in which a failed ProcessShipment of the recalled shipment is only logged
GemFlow_LenientRecall ==
    [pre_register       |-> [pass |-> "bootstrap",          fail |-> "bootstrap"],
     make_admin         |-> [pass |-> "sanity",             fail |-> "sanity"],
     sanity             |-> [pass |-> "create_ship1",       fail |-> "exit"],
     create_ship1       |-> [pass |-> "confirm_ship1",      fail |-> "phase6"],
     confirm_ship1      |-> [pass |-> "phase6",             fail |-> "exit"],
     archive            |-> [pass |-> "archive_check",      fail |-> "unarchive"],
     archive_check      |-> [pass |-> "unarchive",          fail |-> "unarchive"],
     unarchive          |-> [pass |-> "unarchive_check",    fail |-> "full_id_for_alias"],
     unarchive_check    |-> [pass |-> "full_id_for_alias",  fail |-> "full_id_for_alias"],
     full_id_for_alias  |-> [pass |-> "temp_role",          fail |-> "temp_role"],
     temp_role          |-> [pass |-> "temp_role_check",    fail |-> "remove_role"],
     temp_role_check    |-> [pass |-> "remove_role",        fail |-> "remove_role"],
     remove_role        |-> [pass |-> "remove_role_check",  fail |-> "remove_admin"],
     remove_role_check  |-> [pass |-> "remove_admin",       fail |-> "remove_admin"],
     remove_admin       |-> [pass |-> "remove_admin_check", fail |-> "all_identities"],
     remove_admin_check |-> [pass |-> "restore_admin",      fail |-> "restore_admin"],
     restore_admin      |-> [pass |-> "all_identities",     fail |-> "all_identities"],
     all_identities     |-> [pass |-> "input_create",       fail |-> "input_create"],
     transform          |-> [pass |-> "transform_check_input", fail |-> "my_shipments"],
     transform_check_output |-> [pass |-> "my_shipments",   fail |-> "my_shipments"],
     my_shipments       |-> [pass |-> "all_shipments",      fail |-> "all_shipments"],
     all_shipments      |-> [pass |-> "by_status",          fail |-> "by_status"],
     by_status          |-> [pass |-> "recall_create",      fail |-> "recall_create"],
     recall_create      |-> [pass |-> "recall_submit",      fail |-> "exit"],
     recall_submit      |-> [pass |-> "recall_record",      fail |-> "recall_record"],
     recall_record      |-> [pass |-> "recall_process",     fail |-> "recall_process"],
     recall_process     |-> [pass |-> "recall_distribute",  fail |-> "recall_distribute"],
     recall_distribute  |-> [pass |-> "recall_receive",     fail |-> "exit"],
     recall_receive     |-> [pass |-> "initiate_recall",    fail |-> "exit"],
     initiate_recall    |-> [pass |-> "recall_check",       fail |-> "linked_create"],
     recall_check       |-> [pass |-> "linked_create",      fail |-> "linked_create"],
     linked_create      |-> [pass |-> "linked_process",     fail |-> "related"],
     linked_process     |-> [pass |-> "add_linked",         fail |-> "related"],
     add_linked         |-> [pass |-> "linked_check",       fail |-> "related"],
     linked_check       |-> [pass |-> "related",            fail |-> "related"],
     related            |-> [pass |-> "assign_self",        fail |-> "assign_self"],
     assign_self        |-> [pass |-> "self_check",         fail |-> "done"],
     self_check         |-> [pass |-> "cleanup_role",       fail |-> "done"],
     cleanup_role       |-> [pass |-> "done",               fail |-> "done"]]

GemFlow ==
    [pre_register       |-> [pass |-> "bootstrap",          fail |-> "bootstrap"],
     make_admin         |-> [pass |-> "sanity",             fail |-> "sanity"],
     sanity             |-> [pass |-> "create_ship1",       fail |-> "exit"],
     create_ship1       |-> [pass |-> "confirm_ship1",      fail |-> "phase6"],
     confirm_ship1      |-> [pass |-> "phase6",             fail |-> "exit"],
     archive            |-> [pass |-> "archive_check",      fail |-> "unarchive"],
     archive_check      |-> [pass |-> "unarchive",          fail |-> "unarchive"],
     unarchive          |-> [pass |-> "unarchive_check",    fail |-> "full_id_for_alias"],
     unarchive_check    |-> [pass |-> "full_id_for_alias",  fail |-> "full_id_for_alias"],
     full_id_for_alias  |-> [pass |-> "temp_role",          fail |-> "temp_role"],
     temp_role          |-> [pass |-> "temp_role_check",    fail |-> "remove_role"],
     temp_role_check    |-> [pass |-> "remove_role",        fail |-> "remove_role"],
     remove_role        |-> [pass |-> "remove_role_check",  fail |-> "remove_admin"],
     remove_role_check  |-> [pass |-> "remove_admin",       fail |-> "remove_admin"],
     remove_admin       |-> [pass |-> "remove_admin_check", fail |-> "all_identities"],
     remove_admin_check |-> [pass |-> "restore_admin",      fail |-> "restore_admin"],
     restore_admin      |-> [pass |-> "all_identities",     fail |-> "all_identities"],
     all_identities     |-> [pass |-> "input_create",       fail |-> "input_create"],
     transform          |-> [pass |-> "transform_check_input", fail |-> "my_shipments"],
     transform_check_output |-> [pass |-> "my_shipments",   fail |-> "my_shipments"],
     my_shipments       |-> [pass |-> "all_shipments",      fail |-> "all_shipments"],
     all_shipments      |-> [pass |-> "by_status",          fail |-> "by_status"],
     by_status          |-> [pass |-> "recall_create",      fail |-> "recall_create"],
     recall_create      |-> [pass |-> "recall_submit",      fail |-> "exit"],
     recall_submit      |-> [pass |-> "recall_record",      fail |-> "recall_record"],
     recall_record      |-> [pass |-> "recall_process",     fail |-> "recall_process"],
     recall_process     |-> [pass |-> "recall_distribute",  fail |-> "exit"],
     recall_distribute  |-> [pass |-> "recall_receive",     fail |-> "exit"],
     recall_receive     |-> [pass |-> "initiate_recall",    fail |-> "exit"],
     initiate_recall    |-> [pass |-> "recall_check",       fail |-> "linked_create"],
     recall_check       |-> [pass |-> "linked_create",      fail |-> "linked_create"],
     linked_create      |-> [pass |-> "linked_process",     fail |-> "related"],
     linked_process     |-> [pass |-> "add_linked",         fail |-> "related"],
     add_linked         |-> [pass |-> "linked_check",       fail |-> "related"],
     linked_check       |-> [pass |-> "related",            fail |-> "related"],
     related            |-> [pass |-> "assign_self",        fail |-> "assign_self"],
     assign_self        |-> [pass |-> "self_check",         fail |-> "done"],
     self_check         |-> [pass |-> "cleanup_role",       fail |-> "done"],
     cleanup_role       |-> [pass |-> "done",               fail |-> "done"]]

\* the identity after ID_ROSTER[i] in the setup loop, or the call after the loop
NextKid(scr, i) ==
    IF i < Len(ID_ROSTER) THEN Loop("register", i + 1)
    ELSE IF scr = "test" THEN At("grace_register") ELSE At("make_admin")

\* gemtest.py: the test of ship_details_1 that opens phase 6
Phase6(fr) ==
    IF fr.ship_details_1 = NoValue THEN At("traceback")
    ELSE IF IsDict(fr.ship_details_1) /\ Get(fr.ship_details_1, "id") = ShipmentId("_001")
         THEN At("archive") ELSE At("full_id_for_alias")

\* the site main() goes to from site st; fr is main()'s frame after the test
Then(scr, st, outcome, fr) ==
    LET good == outcome \in {"PASS", "own", "yes"}
    IN  CASE st.phase = "full_ids" ->
                IF st.kid < Len(ID_ROSTER) THEN Loop("full_ids", st.kid + 1)
                ELSE IF fr.all_full_ids_retrieved THEN At("pre_register") ELSE At("exit")
          [] st.phase = "pre_register" /\ scr = "gemtest" /\ outcome = "taken" -> At("exit")
          [] st.phase = "bootstrap" -> Loop("register", 2)
          [] st.phase = "register" ->
                IF good /\ (scr = "test" \/ ID_ROSTER[st.kid].role # "admin")
                THEN Loop("assign_role", st.kid) ELSE NextKid(scr, st.kid)
          [] st.phase = "assign_role" -> NextKid(scr, st.kid)
          [] st.phase = "input_create" /\ good -> Loop("input_process", st.kid)
          [] st.phase = "input_process" \/ (st.phase = "input_create" /\ ~good) ->
                IF st.kid < 2 THEN Loop("input_create", st.kid + 1) ELSE At("transform")
          [] st.phase = "transform_check_input" ->
                IF st.kid < 2 THEN Loop("transform_check_input", st.kid + 1)
                ELSE At("transform_check_output")
          [] OTHER ->
                LET flow == IF scr = "test" THEN TestFlow ELSE GemFlow
                    to == IF good THEN flow[st.phase].pass ELSE flow[st.phase].fail
                IN  CASE to = "phase6" -> Phase6(fr)
                      [] to \in {"input_create", "transform_check_input"} -> Loop(to, 1)
                      [] OTHER -> At(to)

-----------------------------------------------------------------------------
(* main(): the answers of the gateway *)

\* a query answered with the chaincode's result
Result(x) == Success(200, Serialise(PyDict([result |-> x])), FALSE)

\* a transaction refused by the chaincode
Refused(text) == HttpError(500, Serialise(PyDict([error |-> PyStr(text)])), FALSE)

\* answers any call may get
CommonAnswers ==
    {Success(202, Serialise(PyDict([sent |-> PyBool(TRUE)])), FALSE),
     Success(200, Serialise(PyDict([status |-> PyStr(<<"VALID">>)])), FALSE),
     Refused(<<"Description: ", "caller is not authorised">>),
     HttpError(500, Serialise(PyDict([error |-> PyInt(5)])), FALSE),
     HttpError(500, <<"plain text">>, TRUE),
     NetError(<<"Connection refused">>)}

\* the chaincode's answers to the registration of a roster entry
RegistrationAnswers(entry) ==
    LET in_use == <<"shortName (alias)", " '", entry.alias, "' ", "is ", "already in use",
                    " by identity">>
    IN  {Refused(in_use \o <<" '">> \o V(FullId(entry.kid)) \o <<"'">>),
         Refused(in_use \o <<": ">> \o V(FullId(entry.kid))),
         Refused(in_use \o <<" '", "x509::", "mock_identity", "'">>)}

\* what the chaincode may return to the query at a site
ResultsAt(st) ==
    CASE st.phase = "full_ids" ->
            {PyDict([fullId |-> FullId(ID_ROSTER[st.kid].kid)]),
             PyStr(Serialise(PyDict([fullId |-> FullId(ID_ROSTER[st.kid].kid)]))),
             PyDict([fullId |-> PyStr(<<"ERROR", ": no certificate">>)]),
             PyDict([fullId |-> PyStr(<<>>)]),
             PyDict([fullId |-> PyInt(5)])}
      [] st.phase = "sanity" ->
            {PyDict([shortName |-> Text(Cast.admin.alias), isAdmin |-> PyBool(TRUE),
                     fullId |-> FullId(Cast.admin.kid)]),
             PyDict([shortName |-> Text(Cast.admin.alias), isAdmin |-> PyBool(FALSE)])}
      [] st.phase = "confirm_ship1" ->
            {PyDict([id |-> ShipmentId("_001"), status |-> Text("CREATED")]),
             PyDict([id |-> ShipmentId("_000"), status |-> Text("CREATED")])}
      [] st.phase \in {"archive_check", "unarchive_check"} ->
            {PyDict([id |-> ShipmentId("_001"), isArchived |-> PyBool(b)]) : b \in BOOLEAN}
      [] st.phase = "full_id_for_alias" ->
            {FullId(Cast.farmer.kid), PyDict([result |-> FullId(Cast.farmer.kid)]), FullId(Cast.bob.kid)}
      [] st.phase \in {"temp_role_check", "remove_role_check", "self_check"} ->
            {PyDict([shortName |-> Text(Cast.farmer.alias),
                     roles |-> PyList(<<Text("farmer"), Text("certifier")>>)]),
             PyDict([shortName |-> Text(Cast.farmer.alias),
                     roles |-> PyList(<<Text("farmer")>>)]),
             PyDict([shortName |-> Text(Cast.farmer.alias), roles |-> PyNone])}
      [] st.phase = "remove_admin_check" ->
            {PyDict([shortName |-> Text(Cast.grace.alias), isAdmin |-> PyBool(b)]) : b \in BOOLEAN}
      [] st.phase = "all_identities" ->
            {PyList([i \in 1..Len(ID_ROSTER) |-> PyDict([shortName |-> Text(ID_ROSTER[i].alias)])]),
             PyList(<<PyDict([shortName |-> Text(Cast.admin.alias)])>>)}
      [] st.phase = "transform_check_input" ->
            {PyDict([status |-> Text("CONSUMED_IN_PROCESSING")]),
             PyDict([status |-> Text("PROCESSED")])}
      [] st.phase = "transform_check_output" ->
            {PyDict([id |-> ShipmentId("_OUTPUT_001"), isDerivedProduct |-> PyBool(TRUE),
                     inputShipmentIds |-> PyList(<<InputShipment(1), InputShipment(2)>>)]),
             PyDict([id |-> ShipmentId("_OUTPUT_001"), isDerivedProduct |-> PyBool(TRUE),
                     inputShipmentIds |-> PyNone]),
             PyDict([id |-> ShipmentId("_OUTPUT_001"), isDerivedProduct |-> PyBool(FALSE)])}
      [] st.phase \in {"my_shipments", "all_shipments", "by_status"} ->
            {PyDict([shipments |-> PyList(<<PyDict([id |-> ShipmentId("_001"),
                                                    status |-> Text("CREATED")])>>),
                     fetchedCount |-> PyInt(1)]),
             PyDict([shipments |-> PyList(<<>>), fetchedCount |-> PyInt(0)]),
             PyDict([shipments |-> PyNone])}
      [] st.phase \in {"recall_check", "linked_check"} ->
            {PyDict([status |-> Text("RECALLED"),
                     recallInfo |-> PyDict([isRecalled |-> PyBool(TRUE),
                                            recallId |-> Text("recall_event_id")])]),
             PyDict([status |-> Text("RECEIVED"), recallInfo |-> PyNone]),
             PyDict([status |-> Text("RECEIVED")])}
      [] st.phase = "related" ->
            {PyList(<<PyDict([shipmentId |-> ShipmentId("_RECALL_LINKED_001")])>>),
             PyList(<<ShipmentId("_RECALL_LINKED_001")>>),
             PyList(<<>>)}
      [] OTHER -> {}

\* the answers the gateway may give to the call at a site
AnswersAt(st) ==
    CASE st = NoValue -> {}
      [] st # NoValue /\ st.phase = "enrollment" -> {}
      [] OTHER ->
        CommonAnswers
          \cup {Result(x) : x \in ResultsAt(st)}
          \cup CASE st.phase = "pre_register" -> RegistrationAnswers(Cast.admin)
                 [] st.phase = "register" -> RegistrationAnswers(ID_ROSTER[st.kid])
                 [] st.phase = "grace_register" -> RegistrationAnswers(Cast.grace)
                 [] st.phase = "bootstrap" ->
                        {Refused(<<"system already has admins or is bootstrapped">>)}
                 [] OTHER -> {}

-----------------------------------------------------------------------------
(* main(): its steps *)

\* the lines main() logs after a test of a call's result
MainLog(scr, st, outcome, nxt) ==
    (CASE outcome \in {"PASS", "own", "yes"} -> <<>>
       [] outcome = "raise" -> IF InTry(st) THEN <<"Error">> ELSE <<>>
       [] scr = "gemtest" /\ st.phase = "create_ship1" -> <<"ERROR creating SHIP001">>
       [] st.phase = "recall_submit" -> <<"Error submitting for cert">>
       [] st.phase = "recall_record" -> <<"Error recording cert">>
       [] OTHER -> <<"ERROR">>)
    \o (IF nxt.phase = "exit" THEN <<"FATAL">> ELSE <<>>)
    \o (IF /\ scr = "gemtest"
           /\ st.phase \in {"create_ship1", "confirm_ship1"}
           /\ nxt.phase = "full_id_for_alias"
        THEN <<"Skipping Archive/Unarchive tests">> ELSE <<>>)

InitMain ==
    /\ script \in {"test", "gemtest"}
    /\ method_type = "invoke"
    /\ pc = "idle"
    /\ op = "none"
    /\ resp = NoValue
    /\ sent = <<>>
    /\ r = NoValue
    /\ ret = NoValue
    /\ raised = FALSE
    /\ log = <<>>
    /\ override = NoValue
    /\ verdict = NoValue
    /\ call = NoValue
    /\ oks = 0
    /\ site = Loop("full_ids", 1)
    /\ SECRETS = EmptyDict
    /\ actual_full_ids = EmptyDict
    /\ frame = [all_full_ids_retrieved |-> TRUE, ship_details_1 |-> NoValue]
    /\ exit_status = NoValue

\* main() goes on at site nxt, or the run ends there
GoTo(nxt) ==
    /\ site' = IF nxt.phase \in {"exit", "traceback", "done"} THEN site ELSE nxt
    /\ pc' = CASE nxt.phase = "exit" -> "exited"
               [] nxt.phase = "traceback" -> "raised"
               [] nxt.phase = "done" -> "done"
               [] OTHER -> "idle"
    /\ exit_status' = CASE nxt.phase \in {"exit", "traceback"} -> PyInt(1)
                        [] nxt.phase = "done" -> PyInt(0)
                        [] OTHER -> NoValue

\* where an exception raised at a site takes main()
Except(scr, st, fr) == IF InTry(st) THEN Then(scr, st, "caught", fr) ELSE At("traceback")

\* main() makes the call of its site
MainCall(answer) ==
    /\ pc = "idle"
    /\ \E c \in {CallAt(script, site, actual_full_ids)} :
       \E out \in {IF c.wrapper = "invoke"
                   THEN invoke(script, c.alias, c.func, c.args, answer)
                   ELSE query(script, c.alias, c.func, c.args, answer)} :
          /\ method_type' = ModeOnEntry(c.wrapper)
          /\ op' = c.wrapper
          /\ call' = [at |-> site, alias |-> c.alias, func |-> c.func, args |-> c.args]
          /\ resp' = answer
          /\ sent' = out.sent
          /\ r' = out.r
          /\ ret' = out.ret
          /\ raised' = out.raised
          /\ IF out.raised
             THEN /\ log' = out.log \o MainLog(script, site, "raise", site)
                  /\ GoTo(Except(script, site, frame))
             ELSE /\ log' = out.log
                  /\ pc' = "called"
                  /\ UNCHANGED <<site, exit_status>>
    /\ override' = NoValue
    /\ verdict' = NoValue
    /\ oks' = 0
    /\ UNCHANGED <<script, SECRETS, actual_full_ids, frame>>

\* main() hands the record to ok() and acts on the verdict
MainClassify ==
    /\ pc = "called"
    /\ Classifies(site)
    /\ \E v \in {ok(script, ret, method_type, PyNone)} :
       \E outcome \in {ClassifiedAs(script, site, v, ret, actual_full_ids)} :
       \E nxt \in {IF outcome = "raise" THEN Except(script, site, frame)
                   ELSE Then(script, site, outcome, frame)} :
          /\ verdict' = [raised |-> v.raised, val |-> v.val]
          /\ log' = v.log \o MainLog(script, site, outcome, nxt)
          /\ GoTo(nxt)
    /\ override' = PyNone
    /\ oks' = 1
    /\ UNCHANGED <<script, method_type, op, resp, sent, r, ret, raised, call,
                   SECRETS, actual_full_ids, frame>>

\* main() tests the value a query returned (or drops the record of an invoke)
\* and acts on the test
MainInspect ==
    /\ pc = "called"
    /\ ~Classifies(site)
    /\ \E outcome \in {Inspect(script, site, ret, actual_full_ids)} :
       \E fr \in {CASE site.phase = "full_ids" /\ outcome = "no" ->
                        [frame EXCEPT !.all_full_ids_retrieved = FALSE]
                    [] site.phase = "confirm_ship1" /\ script = "gemtest" ->
                        [frame EXCEPT !.ship_details_1 = ret]
                    [] OTHER -> frame} :
       \E nxt \in {IF outcome = "raise" THEN Except(script, site, fr)
                   ELSE Then(script, site, outcome, fr)} :
          /\ frame' = fr
          /\ actual_full_ids' =
                IF site.phase = "full_ids" /\ outcome = "yes"
                THEN Put(actual_full_ids, ID_ROSTER[site.kid].kid, Get(ret, "fullId"))
                ELSE actual_full_ids
          /\ log' = MainLog(script, site, outcome, nxt)
          /\ GoTo(nxt)
    /\ UNCHANGED <<script, method_type, op, resp, sent, r, ret, raised, call,
                   override, verdict, oks, SECRETS>>

NextMain ==
    \/ \E answer \in AnswersAt(site) : MainCall(answer)
    \/ MainClassify
    \/ MainInspect

SpecMain == InitMain /\ [][NextMain]_vars

-----------------------------------------------------------------------------
(* Vocabulary of the claims *)

\* a call returned and the caller classified what it got, without an override
ClassifiedByDefault(mode) ==
    pc = "classified" /\ method_type = mode /\ override = PyNone

StatusOf(rec) == Get(rec, "status")

\* details.error or details.message is a text that contains the marker
MarkerInDetails(rec, marker) ==
    /\ IsDict(Get(rec, "details"))
    /\ \E k \in {"error", "message"} :
          /\ HasKey(Get(rec, "details"), k)
          /\ IsStr(Get(rec, "details")[TypeOf(Get(rec, "details"))][k])
          /\ Contains(Lower(V(Get(rec, "details")[TypeOf(Get(rec, "details"))][k])),
                      LowerLex(marker))
          /\ (marker = "Description: "
                => Contains(V(Get(rec, "details")[TypeOf(Get(rec, "details"))][k]), marker))

\* the textual result field contains the marker
MarkerInResult(rec, marker) ==
    /\ IsStr(Get(rec, "result"))
    /\ Contains(Lower(V(Get(rec, "result"))), LowerLex(marker))
    /\ (marker = "Description: " => Contains(V(Get(rec, "result")), marker))

Markers == {"Description: ", "chaincode response"}

\* the record carries nothing that signals an error
NoErrorSign(rec) ==
    /\ ~HasKey(rec, "details")
    /\ ~HasKey(rec, "err")
    /\ \A m \in Markers : ~MarkerInResult(rec, m)

\* the last call made a transport request that the gateway answered with a 2xx
\* response whose body was read
GotSuccess ==
    pc = "called" /\ resp # NoValue /\ resp.kind = "success" /\ ~resp.readfail

\* the last call made a transport request that the gateway answered with a 4xx or
\* 5xx response whose body was read
GotHttpError ==
    pc = "called" /\ resp # NoValue /\ resp.kind = "httperror" /\ ~resp.readfail

-----------------------------------------------------------------------------
(* C1 *)

\* C1: in invoke mode a record with status 202 whose details.error or
\* details.message contains "Description: " is classified FAIL, and a record with
\* status 202 and no error sign is classified PASS.
C1_Accepted202 ==
    (ClassifiedByDefault("invoke") /\ EqInt(StatusOf(ret), 202))
        => /\ MarkerInDetails(ret, "Description: ")
                => (~verdict.raised /\ verdict.val = FAIL)
           /\ NoErrorSign(ret) => (~verdict.raised /\ verdict.val = PASS)

-----------------------------------------------------------------------------
(* C2 *)

\* the last call was a query whose request was answered HTTP 200 with a body whose
\* result is an empty or all-blank text
BlankResult ==
    /\ op = "query" /\ ~raised
    /\ resp # NoValue /\ resp.kind = "success" /\ resp.code = 200 /\ ~resp.readfail
    /\ r # NoValue /\ EqInt(StatusOf(r), 200)
    /\ IsStr(Get(r, "result")) /\ Strip(V(Get(r, "result"))) = <<>>

\* C2 (as stated): for a query answered HTTP 200 with result "" or blank, ok() on
\* the record is PASS and query() returns an absent-value indicator, not the record.
C2_AbsentValue ==
    (pc \in {"called", "classified"} /\ BlankResult)
        => /\ ret = PyNone
           /\ (pc = "classified" /\ override = PyNone /\ NoErrorSign(r))
                => (~verdict.raised /\ verdict.val = PASS)

\* C2 (amended): for a query answered HTTP 200 with result "" or blank, query()
\* returns the full record of _req, blank result included, and ok() on that record,
\* with no override, is PASS when the record carries no details and no err.
C2_BlankResultRecord ==
    (pc \in {"called", "classified"} /\ BlankResult)
        => /\ ret = r
           /\ IsDict(ret) /\ Strip(V(Get(ret, "result"))) = <<>>
           /\ (pc = "classified" /\ override = PyNone /\ NoErrorSign(r))
                => (~verdict.raised /\ verdict.val = PASS)

\* a blank-result record was returned by query and classified PASS
C2_Witness ==
    /\ pc = "classified" /\ BlankResult /\ override = PyNone /\ NoErrorSign(r)
    /\ ret = r /\ Get(r, "result") = PyStr(<<" ">>)
    /\ verdict.val = PASS

-----------------------------------------------------------------------------
(* C3 *)

\* the payload query decodes from the result field of a status-200 record: the
\* parsed JSON of a result text, the text itself when it is no JSON, the value
\* itself when it is no text; None when there is nothing to decode
DecodedPayload(rec) ==
    LET result == Get(rec, "result")
    IN  IF result = PyNone THEN PyNone
        ELSE IF ~IsStr(result) THEN result
        ELSE IF \A i \in 1..Len(V(result)) : V(result)[i] = " " THEN PyNone
        ELSE IF json_loads(V(result)) = JSONDecodeError THEN result
        ELSE json_loads(V(result))

\* C3: query() returns the decoded result payload exactly when the record's status
\* is 200 and the decoded payload is not None; in every other case it returns the
\* record produced by _req unchanged.
C3_QueryReturn ==
    (pc = "called" /\ op = "query" /\ ~raised /\ resp # NoValue)
        => IF EqInt(StatusOf(r), 200) /\ DecodedPayload(r) # PyNone
           THEN ret = DecodedPayload(r) /\ ret # r
           ELSE ret = r /\ r = _req(sent[1], resp).val

\* query decoded a JSON text into the list it spells and returned the list
C3_Witness ==
    /\ pc = "called" /\ op = "query" /\ ~raised /\ r # NoValue
    /\ IsStr(Get(r, "result")) /\ ret = ShipmentList /\ ret # r

-----------------------------------------------------------------------------
(* C4 *)

\* C4: a record whose status is the text "VALID" in any letter case is classified
\* PASS in invoke mode, whatever expected-codes override is passed.
C4_ValidAnyCase ==
    (pc = "classified" /\ method_type = "invoke"
        /\ IsStr(StatusOf(ret)) /\ Lower(V(StatusOf(ret))) = <<"valid">>)
        => (~verdict.raised /\ verdict.val = PASS)

\* a lower-case "valid" was classified PASS under an override that lists only 200
C4_Witness ==
    /\ pc = "classified" /\ method_type = "invoke"
    /\ StatusOf(ret) = PyStr(<<"valid">>) /\ override = PyList(<<PyInt(200)>>)
    /\ verdict.val = PASS

-----------------------------------------------------------------------------
(* C5 *)

\* the status of the record is an integer listed in the override
ListedInOverride(rec) ==
    /\ override # NoValue /\ override # PyNone
    /\ TypeOf(StatusOf(rec)) = "int"
    /\ \E i \in 1..Len(V(override)) : override[TypeOf(override)][i] = StatusOf(rec)

\* C5: an explicit expected-codes override replaces the mode default: a record whose
\* integer status is in the override and that carries no error sign is classified
\* PASS, in invoke mode and in query mode alike.
C5_OverrideReplacesDefault ==
    (pc = "classified" /\ ListedInOverride(ret) /\ NoErrorSign(ret))
        => (~verdict.raised /\ verdict.val = PASS)

-----------------------------------------------------------------------------
(* C6 *)

\* C6: in query mode a record with status 200 that carries an error marker
\* ("Description: " or "chaincode response") in details.error, in details.message
\* or in its textual result is classified FAIL.
C6_QueryMarkerFails ==
    (ClassifiedByDefault("query") /\ EqInt(StatusOf(ret), 200)
        /\ \E m \in Markers : MarkerInDetails(ret, m) \/ MarkerInResult(ret, m))
        => (~verdict.raised /\ verdict.val = FAIL)

-----------------------------------------------------------------------------
(* C7 *)

\* the body of the answer decodes to a JSON object
BodyIsObject == resp.body # <<>> /\ IsDict(json_loads(resp.body))

\* the body of the answer is empty, is no JSON, or is a JSON object
BodyEmptyObjectOrText ==
    resp.body = <<>> \/ json_loads(resp.body) = JSONDecodeError \/ BodyIsObject

-----------------------------------------------------------------------------
(* C8 *)

\* the record carries the status of the successful answer: the HTTP code, or the
\* status the body object itself supplies
CarriesSuccessStatus ==
    \/ StatusOf(r) = PyInt(resp.code)
    \/ /\ BodyIsObject /\ HasKey(json_loads(resp.body), "status")
       /\ StatusOf(r) = Get(json_loads(resp.body), "status")

\* the record holds every field of the body object
CarriesBodyFields ==
    /\ BodyIsObject
    /\ \A k \in DOMAIN V(json_loads(resp.body)) :
          HasKey(r, k) /\ V(r)[k] = V(json_loads(resp.body))[k]

\* C8: on an HTTP-successful response with a non-empty body the record of _req
\* carries the success status and either the fields of the decoded body or the raw
\* body under raw; the body is never discarded, also when it is JSON that is no
\* object.
C8_BodyKept ==
    (GotSuccess /\ r # NoValue /\ resp.body # <<>>)
        => /\ CarriesSuccessStatus
           /\ CarriesBodyFields \/ Get(r, "raw") = PyStr(resp.body)

-----------------------------------------------------------------------------
(* C9 *)

\* C9: for every HTTP error response _req returns {status: code, err: "HTTP <code>",
\* details}; details is the parsed body whenever the body is JSON, and the raw text
\* plus a note when it is not; no exception escapes.
C9_ErrorRecord ==
    GotHttpError
        => /\ ~raised /\ IsDict(r) /\ DOMAIN V(r) = {"status", "err", "details"}
           /\ StatusOf(r) = PyInt(resp.code)
           /\ Get(r, "err") = PyStr(<<"HTTP ", ToString(resp.code)>>)
           /\ IF json_loads(resp.body) # JSONDecodeError
              THEN Get(r, "details") = json_loads(resp.body)
              ELSE /\ IsDict(Get(r, "details"))
                   /\ Get(Get(r, "details"), "raw") = PyStr(resp.body)
                   /\ IsStr(Get(Get(r, "details"), "note"))

-----------------------------------------------------------------------------
(* C10 *)

\* the transport request of the last call failed below HTTP: urlopen raised for the
\* connection, or the read of the answer's body raised
TransportFailed ==
    pc = "called" /\ resp # NoValue /\ (resp.kind = "neterror" \/ resp.readfail)

\* C10: for every transport-level failure _req returns a record with the
\* failure-sentinel status 500 and an err description, and raises no exception to
\* its caller.
C10_FailureRecord ==
    TransportFailed
        => /\ ~raised /\ IsDict(r)
           /\ StatusOf(r) = PyInt(TransportFailureStatus)
           /\ Get(r, "err") = PyStr(resp.exc)

-----------------------------------------------------------------------------
(* C11 *)

RosterAliases == {ID_ROSTER[i].alias : i \in 1..Len(ID_ROSTER)}

\* C11: invoke() and query() called with an alias that is not in ID_ROSTER return
\* {status: 0, err: "Signer alias <alias> not found in ID_ROSTER"} and hand nothing
\* to _req: no transport request is made.
C11_UnknownAlias ==
    (pc = "called" /\ call.alias \notin RosterAliases)
        => /\ ~raised
           /\ ret = PyDict([status |-> PyInt(0),
                            err |-> PyStr(<<"Signer alias ", call.alias,
                                            " not found in ID_ROSTER">>)])
           /\ sent = <<>> /\ r = NoValue /\ resp = NoValue

\* a query for ghost_alias came back with the status-0 record and nothing was sent
C11_Witness ==
    /\ pc = "called" /\ op = "query" /\ call.alias = "ghost_alias"
    /\ StatusOf(ret) = PyInt(0) /\ sent = <<>>

-----------------------------------------------------------------------------
(* C12 *)

\* C12: invoke() and query() always return a value and never raise to the caller,
\* for every alias, every argument list (strings, numbers, booleans, bytes) and
\* every answer of the gateway.
C12_NeverRaises ==
    pc = "called" => (~raised /\ ret # NoValue)

-----------------------------------------------------------------------------
(* C13 *)

\* C13: in every envelope that invoke() or query() hands to _req, args has as many
\* elements as the input list, in the same order, and every element is a string:
\* the input argument itself when it is a string, its string representation
\* otherwise.
C13_StringArgs ==
    (pc = "called" /\ sent # <<>>)
        => \A e \in 1..Len(sent) :
              /\ Len(V(Get(sent[e], "args"))) = Len(call.args)
              /\ \A j \in 1..Len(call.args) :
                    /\ IsStr(V(Get(sent[e], "args"))[j])
                    /\ V(Get(sent[e], "args"))[j] =
                          IF IsStr(call.args[j]) THEN call.args[j]
                          ELSE PyStrOf(call.args[j])

-----------------------------------------------------------------------------
(* C14 *)

-----------------------------------------------------------------------------
(* C15 *)

\* the status of the record is acceptable: the text VALID in any letter case in
\* invoke mode, or an integer in the set of codes in force
Acceptable ==
    \/ /\ method_type = "invoke" /\ IsStr(StatusOf(ret))
       /\ Lower(V(StatusOf(ret))) = <<"valid">>
    \/ /\ TypeOf(StatusOf(ret)) = "int"
       /\ \E c \in (IF override = PyNone
                    THEN (IF method_type = "invoke" THEN {202} ELSE {200})
                    ELSE {V(V(override)[i]) : i \in 1..Len(V(override))}) :
             StatusOf(ret) = PyInt(c)

\* C15: ok() returns PASS only if the status is acceptable; every other record
\* (status 0, status 500, no status, VALID in query mode) is classified FAIL.
C15_OthersFail ==
    (pc = "classified" /\ ~Acceptable) => (~verdict.raised /\ verdict.val = FAIL)

-----------------------------------------------------------------------------
(* C16 *)

SummaryKinds == {"Sent/Committed", "CHAINCODE ERROR", "UNEXPECTED HTTP Status"}

\* C16: every invoke() call that got a record from _req emits exactly one summary
\* log line, and the line classifies the call as sent/committed, as a chaincode
\* error or as an unexpected HTTP status.
C16_OneSummaryLine ==
    (pc = "called" /\ op = "invoke" /\ r # NoValue)
        => (Len(log) = 1 /\ log[1] \in SummaryKinds)

-----------------------------------------------------------------------------
(* C17 *)

-----------------------------------------------------------------------------
(* C18 *)

\* the last call was a query answered HTTP 200 whose record holds a text as result
TextResult ==
    /\ pc = "called" /\ op = "query"
    /\ resp # NoValue /\ resp.kind = "success" /\ resp.code = 200 /\ ~resp.readfail
    /\ r # NoValue /\ StatusOf(r) = PyInt(200) /\ IsStr(Get(r, "result"))

\* C18 (as stated): for a query with HTTP 200 and a string result, query() returns
\* the parsed value if the string is valid JSON and the raw string itself if it is
\* not, and raises no exception.
C18_ParsedOrRaw ==
    TextResult
        => /\ ~raised
           /\ ret = IF json_loads(V(Get(r, "result"))) # JSONDecodeError
                    THEN json_loads(V(Get(r, "result")))
                    ELSE Get(r, "result")

\* C18 (amended): for a query with HTTP 200 and a string result that is not blank,
\* query() returns the parsed value if the string is valid JSON other than null and
\* the raw string itself if it is not valid JSON; for a blank string and for the
\* JSON text null it returns the record of _req; it raises no exception.
C18_ParsedRawOrRecord ==
    TextResult
        => /\ ~raised
           /\ ret = IF \A i \in 1..Len(V(Get(r, "result"))) : V(Get(r, "result"))[i] = " "
                    THEN r
                    ELSE IF json_loads(V(Get(r, "result"))) = JSONDecodeError
                    THEN Get(r, "result")
                    ELSE IF json_loads(V(Get(r, "result"))) = PyNone
                    THEN r
                    ELSE json_loads(V(Get(r, "result")))

\* a result text that is no JSON came back as it was
C18_Witness ==
    TextResult /\ ~raised /\ ret = PyStr(<<"not json">>) /\ ret = Get(r, "result")

-----------------------------------------------------------------------------
(* C19 *)

\* C19: for a query with HTTP 200 whose result is neither null nor a string,
\* query() returns that value itself, also when it is false, 0, an empty list or
\* an empty object.
C19_PassThrough ==
    (pc = "called" /\ op = "query" /\ ~raised /\ r # NoValue
        /\ StatusOf(r) = PyInt(200) /\ HasKey(r, "result")
        /\ TypeOf(Get(r, "result")) \in {"bool", "int", "list", "dict"})
        => ret = Get(r, "result")

\* the pre-decoded value false came back as false
C19_Witness ==
    /\ pc = "called" /\ op = "query" /\ ~raised /\ r # NoValue
    /\ StatusOf(r) = PyInt(200) /\ Get(r, "result") = PyBool(FALSE)
    /\ ret = PyBool(FALSE)

-----------------------------------------------------------------------------
(* C20 *)

C24_SameVerdictInBothCopies ==
    pc = "classified" =>
        \A a \in {ok_test(ret, method_type, override)} :
        \A b \in {ok_gem(ret, method_type, override)} :
            a.raised = b.raised /\ a.val = b.val

-----------------------------------------------------------------------------
(* Claims about the identity helpers and the enrollment phase *)

\* the roster entry the enrollment loop is at
CurrentKid == ID_ROSTER[site.kid].kid

\* the look-up request for the roster entry the loop is at
LookupRequest == Request("GET", IDENTITY_URL \o <<"/", CurrentKid>>, PyNone)

\* the registration POST was answered HTTP 500 with a details.error that holds
\* "Identity" and "is already registered"
AnsweredAlreadyRegistered ==
    /\ op = "register_kaleido_identity"
    /\ resp[1].kind = "httperror" /\ resp[1].code = 500 /\ ~resp[1].readfail
    /\ \E details \in {ErrorDetails(resp[1].body)} :
          /\ IsDict(details)
          /\ IsStr(Get(details, "error"))
          /\ Contains(V(Get(details, "error")), "Identity")
          /\ Contains(V(Get(details, "error")), "is already registered")

\* the record _req made of the answer to the second request has status 200
LookupGave200 ==
    /\ Len(resp) = 2
    /\ \E g \in {_req(PyNone, resp[2])} : ~g.raised /\ EqInt(Get(g.val, "status"), 200)

\* C21: when the registration POST is answered HTTP 500 with a details.error
\* holding "Identity" and "is already registered", register_kaleido_identity
\* issues one GET for that identity after the POST, returns True if and only if
\* the GET gave status 200, and stores no secret for the identity.
C21_AlreadyRegistered ==
    AnsweredAlreadyRegistered =>
        /\ Len(sent) = 2
        /\ sent[1].method = "POST"
        /\ sent[2] = LookupRequest
        /\ (ret = PyBool(TRUE)) <=> LookupGave200
        /\ (~raised) => ret \in {PyBool(TRUE), PyBool(FALSE)}
        /\ ~HasKey(SECRETS, CurrentKid)

\* an already registered identity whose look-up gave 200: register returned True
C21_Witness ==
    AnsweredAlreadyRegistered /\ LookupGave200 /\ ret = PyBool(TRUE) /\ site.kid = 2

\* the enroll request for the roster entry the loop is at, carrying `secret`
EnrollRequest(secret) ==
    Request("POST", IDENTITY_URL \o <<"/", CurrentKid, "/enroll">>, PyDict([secret |-> secret]))

\* the answer carried a non-empty secret
SecretCarried(answer) ==
    \E got \in {_req(PyNone, answer)} : ~got.raised /\ Truthy(Get(got.val, "secret"))

\* the secret an answer carried
SecretOf(answer) == Get(CHOOSE rec \in {_req(PyNone, answer).val} : TRUE, "secret")

\* the answer to the first request gave status 200 with a non-empty enrollmentCert
EnrolledAlready ==
    \E g \in {_req(PyNone, resp[1])} :
        ~g.raised /\ EqInt(Get(g.val, "status"), 200) /\ Truthy(Get(g.val, "enrollmentCert"))

\* C29: enroll_kaleido_identity sends the enroll POST only with the secret that
\* register_kaleido_identity stored for the same identity earlier in the run;
\* without a stored secret it sends no POST, issues one GET and returns True if
\* and only if the GET gave status 200 with a non-empty enrollmentCert; and
\* SECRETS[kid] is written only by the registration of kid whose answer carried
\* a non-empty secret.
C29_EnrollSecret ==
    /\ [](op = "enroll_kaleido_identity" =>
            /\ Len(sent) = 1
            /\ IF HasKey(SECRETS, CurrentKid)
               THEN sent[1] = EnrollRequest(Get(SECRETS, CurrentKid))
               ELSE /\ sent[1] = LookupRequest
                    /\ (ret = PyBool(TRUE)) <=> EnrolledAlready)
    /\ [][SECRETS' # SECRETS =>
            /\ op' = "register_kaleido_identity"
            /\ site' = site
            /\ SecretCarried(resp'[1])
            /\ SECRETS' = Put(SECRETS, CurrentKid, SecretOf(resp'[1]))]_vars

\* an identity whose registration stored a secret is enrolled with that secret
C29_Witness ==
    /\ op = "enroll_kaleido_identity"
    /\ HasKey(SECRETS, CurrentKid)
    /\ sent = <<EnrollRequest(PyStr(<<"s3cr3t">>))>>
    /\ ret = PyBool(TRUE)

\* a step in which enroll_kaleido_identity returns False
EnrollReturnsFalse ==
    pc = "registered" /\ op' = "enroll_kaleido_identity" /\ ret' = PyBool(FALSE)

\* C25: with enrollment enabled, main runs register_kaleido_identity and then
\* enroll_kaleido_identity for every roster identity in roster order, whatever
\* either returns, and only then ends the phase; it exits with status 1, before
\* any chaincode query or invoke, if and only if at least one
\* enroll_kaleido_identity returned False (identities_fully_ready records exactly
\* that); a registration that returns False does not stop the run.
C25_EnrollmentLoop ==
    /\ [][/\ (op' = "enroll_kaleido_identity" /\ pc = "registered") =>
                (op = "register_kaleido_identity" /\ site' = site)
          /\ (site'.phase = site.phase /\ site'.kid # site.kid) =>
                (op = "enroll_kaleido_identity" /\ site'.kid = site.kid + 1)
          /\ (site'.phase # site.phase) =>
                (op = "enroll_kaleido_identity" /\ site.kid = Len(ID_ROSTER)
                 /\ frame.identities_fully_ready)
          /\ (frame.identities_fully_ready /\ ~frame'.identities_fully_ready)
                <=> (frame.identities_fully_ready /\ EnrollReturnsFalse)]_vars
    /\ [](exit_status # NoValue =>
            /\ exit_status = PyInt(1)
            /\ site = Enrollment(Len(ID_ROSTER))
            /\ op = "none"
            /\ ~frame.identities_fully_ready)

-----------------------------------------------------------------------------
(* Claims about the main sequences *)

\* ok() returned this verdict for the record of the last call
Classified(passed) == verdict # NoValue /\ ~verdict.raised /\ verdict.val = passed

\* the last call was made at this site
LastCallAt(st) == call # NoValue /\ call.at = st

\* C22: in gemtest.py's main, when the CreateShipment call for SHIP001 is
\* classified FAIL the run does not stop: it logs the error, comes to the
\* Archive/Unarchive phase, skips it with the 'Skipping Archive/Unarchive tests'
\* line and goes on with the later phases.
C22_FailedShipmentSkipsArchive ==
    (script = "gemtest" /\ LastCallAt(At("create_ship1")) /\ Classified(FAIL)) =>
        /\ exit_status = NoValue
        /\ pc = "idle"
        /\ site = At("full_id_for_alias")
        /\ Contains(log, "ERROR creating SHIP001")
        /\ Contains(log, "Skipping Archive/Unarchive tests")

Usable(x) == IsStr(x) /\ V(x) # <<>> /\ Head(V(x)) # "ERROR"

\* the roster entry registered under the alias
EntryOf(alias) == ID_ROSTER[CHOOSE i \in 1..Len(ID_ROSTER) : Text(ID_ROSTER[i].alias) = alias]

\* C26: no invoke is submitted before TestGetCallerIdentity returned a usable
\* fullId for every roster identity; otherwise main exits with status 1 after
\* trying all identities; and every RegisterIdentity carries as first argument
\* the fullId stored in actual_full_ids for the identity it registers.
C26_FullIdsBeforeTransactions ==
    /\ (op = "invoke" /\ sent # <<>>) =>
            \A i \in 1..Len(ID_ROSTER) :
                /\ HasKey(actual_full_ids, ID_ROSTER[i].kid)
                /\ Usable(Get(actual_full_ids, ID_ROSTER[i].kid))
    /\ (site.phase = "full_ids" /\ exit_status # NoValue) =>
            /\ exit_status = PyInt(1)
            /\ LastCallAt(Loop("full_ids", Len(ID_ROSTER)))
    /\ (call # NoValue /\ call.func = "RegisterIdentity") =>
            call.args[1] = Get(actual_full_ids, EntryOf(call.args[2]).kid)

\* the record's error message is a text with 'already in use by identity' and
\* the full ID in it
NamesAsHolder(rec, full_id) ==
    /\ IsStr(ErrorMsgDetail(rec))
    /\ HasRun(V(ErrorMsgDetail(rec)), <<"already in use", " by identity">>)
    /\ HasRun(V(ErrorMsgDetail(rec)), V(full_id))

\* the last call registered the roster entry, and it passed or failed because
\* the entry's own full ID holds the alias already
RegisteredOrHeld(entry) ==
    /\ call # NoValue
    /\ call.func = "RegisterIdentity"
    /\ call.args = <<Get(actual_full_ids, entry.kid), Text(entry.alias), Text(entry.alias)>>
    /\ \/ Classified(PASS)
       \/ Classified(FAIL) /\ NamesAsHolder(ret, Get(actual_full_ids, entry.kid))

\* C27: during identity setup MakeIdentityAdmin is submitted for GraceAudits
\* only if its RegisterIdentity call was classified PASS or failed with an
\* 'already in use by identity' message that names its own full ID.
C27_MakeAdminAfterRegistration ==
    [][(pc = "idle" /\ site = At("make_admin") /\ call'.func = "MakeIdentityAdmin")
            => RegisteredOrHeld(Cast.grace)]_vars

\* C28: in the setup loop AssignRoleToIdentity is submitted for a roster
\* identity only if the RegisterIdentity call of the same iteration was
\* classified PASS or failed with an 'already in use by identity' message that
\* names the identity's own retrieved full ID; and the loop makes a call only
\* for an identity with a retrieved full ID.
C28_RoleAfterRegistration ==
    /\ [][(pc = "idle" /\ site.phase = "assign_role" /\ call'.func = "AssignRoleToIdentity")
            => /\ LastCallAt(Loop("register", site.kid))
               /\ RegisteredOrHeld(ID_ROSTER[site.kid])
               /\ call'.args[1] = Text(ID_ROSTER[site.kid].alias)]_vars
    /\ []((call # NoValue /\ call.at.phase \in {"register", "assign_role"}) =>
            Usable(Get(actual_full_ids, ID_ROSTER[call.at.kid].kid)))

\* a role was assigned in the loop after the registration of the same identity
C28_Witness ==
    /\ pc = "called"
    /\ site = Loop("assign_role", 3)
    /\ call.func = "AssignRoleToIdentity"
    /\ call.args = <<Text(Cast.bob.alias), Text(Cast.bob.role)>>
    /\ sent # <<>>

\* the calls of the recall phase for the recalled shipment, in program order
RecallCalls ==
    <<"recall_create", "recall_submit", "recall_record", "recall_process",
      "recall_distribute", "recall_receive", "initiate_recall">>

\* the four whose failure is fatal
RecallNeeds == {"recall_create", "recall_process", "recall_distribute", "recall_receive"}

\* C30: in gemtest.py's recall phase InitiateRecall is submitted only after the
\* CreateShipment, ProcessShipment, DistributeShipment and ReceiveShipment
\* invokes for the recalled shipment were each classified PASS, in that order;
\* a FAIL on one of the four ends the run with exit status 1, and a FAIL on
\* SubmitForCertification or RecordCertification is only logged.
C30_RecallAfterFourPasses ==
    [][/\ \A i \in 1..(Len(RecallCalls) - 1) :
            /\ (site'.phase = RecallCalls[i + 1] /\ site.phase # RecallCalls[i + 1]) =>
                    /\ site.phase = RecallCalls[i]
                    /\ pc = "called"
                    /\ verdict' # NoValue /\ ~verdict'.raised
                    /\ RecallCalls[i] \in RecallNeeds => verdict'.val = PASS
            /\ (site.phase = RecallCalls[i] /\ pc = "called"
                    /\ verdict' # NoValue /\ ~verdict'.raised /\ verdict'.val = FAIL) =>
                    IF RecallCalls[i] \in RecallNeeds
                    THEN pc' = "exited" /\ exit_status' = PyInt(1)
                    ELSE /\ pc' = "idle" /\ exit_status' = NoValue
                         /\ site'.phase = RecallCalls[i + 1]
                         /\ \E line \in {"Error submitting for cert", "Error recording cert"} :
                                Contains(log', line)
       /\ (call' # call /\ call'.func = "InitiateRecall") =>
            /\ site = At("initiate_recall")
            /\ call.func = "ReceiveShipment"
            /\ call.args[1] = call'.args[1]
            /\ Classified(PASS)]_vars

\* InitiateRecall was submitted for the recalled shipment
C30_Witness ==
    /\ pc = "called"
    /\ site = At("initiate_recall")
    /\ call.func = "InitiateRecall"
    /\ call.args[1] = ShipmentId("_RECALL_MAIN_001")
    /\ sent # <<>>

=============================================================================
